---- MODULE Spec2Model ----
(***************************************************************************)
(* Starlink Platform API: the role/permission store with the access        *)
(* control decorators of utils/auth.py, registration (routes/auth.py), the *)
(* vendor telemetry client of utils/starlink_api.py with the decoding of   *)
(* its payload, the statistics handlers of routes/telemetry.py, and the    *)
(* membership, device and profile routes of routes/organization.py,        *)
(* routes/device.py and routes/user.py.                                    *)
(*                                                                         *)
(* Rows are identified by their natural keys: a Role by its unique name, a *)
(* Permission by its unique (resource, action) pair, a UserRole by         *)
(* (user_id, role, organization_id), a RolePermission by (role, pair).     *)
(***************************************************************************)
EXTENDS Integers, Sequences, FiniteSets, TLC

VARIABLES
    Role,            \* table roles: the role names present
    Permission,      \* table permissions: the (resource, action) pairs present
    RolePermission,  \* table role_permissions: <<role, <<resource, action>>>>
    UserRole,        \* table user_roles: <<user_id, role, organization_id>>
    User,            \* table users: the user ids present
    Organization,    \* table organizations: the organization ids present
    response,        \* the response of the request handled last
    \* utils/starlink_api.py: one StarlinkAPI instance and its callers
    access_token,    \* self.access_token: 0 is None, n > 0 the n-th token issued
    token_expiry,    \* self.token_expiry, in seconds
    now,             \* time.time(), in seconds
    threads,         \* the threads calling into the instance
    pc,              \* pc[t]: where thread t stands in get_telemetry
    current_time,    \* current_time[t]: the local of _ensure_token
    depth,           \* depth[t]: nested get_telemetry frames of the fetch
    bearer,          \* bearer[t]: the token of the Authorization header sent last
    log,             \* log[t]: the upstream calls and replies of the fetch
    result,          \* result[t]: what the fetch returned
    caller,          \* caller[t]: who called get_telemetry
    http,            \* http[t]: the status sync_telemetry answered
    fetches,         \* fetches[t]: fetches started by t
    issued,          \* tokens the vendor has issued
    acquired_at,     \* when the cached token arrived
    checked_at,      \* the current_time of the check that acquired it
    \* process_telemetry_data and the callers that file its records
    telemetry_data,  \* the JSON body get_telemetry returned
    processed_data,  \* what process_telemetry_data returned
    filed,           \* what the caller made of it: its name, status and streams
    \* routes/telemetry.py: the statistics handlers
    RouterTelemetry,        \* table router_telemetry
    UserTerminalTelemetry,  \* table user_terminal_telemetry
    utcnow,                 \* datetime.utcnow(), in days
    stats_response,         \* the response of the statistics request handled last
    \* the tables the membership and device routes write
    OrganizationUser,       \* table organization_users: <<organization_id, user_id>>
    devices,                \* table devices: the device ids present
    first_name              \* first_name[u]: column first_name of the users row u

store == <<Role, Permission, RolePermission, UserRole, User, Organization>>

client ==
    <<access_token, token_expiry, now, threads, pc, current_time, depth,
      bearer, log, result, caller, http, fetches, issued, acquired_at,
      checked_at>>

decoder == <<telemetry_data, processed_data, filed>>

stats == <<RouterTelemetry, UserTerminalTelemetry, utcnow, stats_response>>

inventory == <<OrganizationUser, devices, first_name>>

\* What the steps of each part leave alone.
outside_store == <<client, decoder, stats, inventory>>
outside_client == <<store, response, decoder, stats, inventory>>
outside_decoder == <<store, response, client, stats, inventory>>
outside_stats == <<store, response, client, decoder, inventory>>
outside_inventory == <<client, decoder>>

(***************************************************************************)
(* Bounds and input sets of the model.                                     *)
(***************************************************************************)
MaxUserRoles == 2
\* Fetches a thread starts.
MaxFetches == 2
\* Fetches a thread starts when several threads share the client.
SharedFetches == 1
\* Clock steps taken; a step is half the token lifetime.
MaxTicks == 4
\* Clock steps taken when several threads share the client.
SharedTicks == 2
ClockStep == 7 * 60
\* Nested get_telemetry frames Python allows before RecursionError.
RecursionLimit == 3

UserIds == {"u1", "u2"}
\* Values of a profile column; every row starts with the first one.
Names == {"a", "b"}
OrgIds == {"o1", "o2"}
DeviceIds == {"d1", "d2"}
\* Device.organization_id of each device.
Device == [d \in DeviceIds |-> "o1"]

\* The roles the model assigns to users and whose edges it edits.
InputRoles == {"Super Admin", "Admin", "Client"}
\* The pairs the modelled routes require; <<"telemetry", "create">> is what
\* sync_telemetry requires.
InputPermissions == {<<"telemetry", "read">>, <<"telemetry", "create">>}

\* @permission_required('telemetry', 'create') of sync_telemetry.
sync_telemetry_requires == <<"telemetry", "create">>

\* The pairs the routes of each blueprint name in @permission_required.
device_bp_requires ==
    {<<"device", "read">>, <<"device", "create">>, <<"device", "update">>,
     <<"device", "delete">>}
notification_bp_requires ==
    {<<"notification", "read">>, <<"notification", "create">>,
     <<"notification", "update">>, <<"notification", "delete">>}
organization_bp_requires ==
    {<<"organization", "read">>, <<"organization", "create">>,
     <<"organization", "update">>}
support_bp_requires ==
    {<<"support", "read">>, <<"support", "create">>, <<"support", "update">>}
telemetry_bp_requires == {<<"telemetry", "read">>, sync_telemetry_requires}
user_bp_requires == {<<"user", "read">>, <<"user", "create">>}

\* The pairs required by the routes of the registered blueprints.
RequiredPermissions ==
    device_bp_requires \cup notification_bp_requires
    \cup organization_bp_requires \cup support_bp_requires
    \cup telemetry_bp_requires \cup user_bp_requires

\* What a request carries: a credential, whether the storage answers the
\* decorator's queries, and the identity the credential resolves to (a request
\* without a valid credential has none; "u1" stands in its record).
Identities ==
    {<<"expired", TRUE, "u1">>, <<"missing", TRUE, "u1">>}
    \cup {<<"valid", d, u>> : d \in BOOLEAN, u \in UserIds}

(***************************************************************************)
(* The seeded catalog of init_roles_and_permissions.                       *)
(***************************************************************************)
SeedRoles ==
    {"Super Admin", "Admin", "Organization Admin", "Technician", "Support",
     "Viewer", "Client"}

SeedPermissions ==
    {<<"user", "create">>, <<"user", "read">>, <<"user", "update">>,
     <<"user", "delete">>,
     <<"organization", "create">>, <<"organization", "read">>,
     <<"organization", "update">>, <<"organization", "delete">>,
     <<"device", "create">>, <<"device", "read">>, <<"device", "update">>,
     <<"device", "delete">>,
     <<"telemetry", "read">>, <<"telemetry", "sync">>,
     <<"support", "create">>, <<"support", "read">>, <<"support", "update">>,
     <<"support", "delete">>,
     <<"notification", "create">>, <<"notification", "read">>,
     <<"notification", "update">>, <<"notification", "delete">>}

SeedRolePermissions ==
    ({"Super Admin"} \X SeedPermissions)
    \cup ({"Admin"} \X
        {<<"user", "create">>, <<"user", "read">>, <<"user", "update">>,
         <<"user", "delete">>,
         <<"organization", "create">>, <<"organization", "read">>,
         <<"organization", "update">>, <<"organization", "delete">>,
         <<"device", "read">>, <<"telemetry", "read">>,
         <<"support", "read">>, <<"support", "update">>,
         <<"notification", "read">>, <<"notification", "update">>})
    \cup ({"Organization Admin"} \X
        {<<"user", "create">>, <<"user", "read">>, <<"user", "update">>,
         <<"organization", "read">>, <<"organization", "update">>,
         <<"device", "create">>, <<"device", "read">>, <<"device", "update">>,
         <<"telemetry", "read">>,
         <<"support", "create">>, <<"support", "read">>, <<"support", "update">>,
         <<"notification", "read">>, <<"notification", "update">>})
    \cup ({"Technician"} \X
        {<<"device", "read">>, <<"device", "update">>,
         <<"telemetry", "read">>, <<"telemetry", "sync">>,
         <<"support", "create">>, <<"support", "read">>, <<"support", "update">>})
    \cup ({"Support"} \X
        {<<"user", "read">>, <<"organization", "read">>, <<"device", "read">>,
         <<"telemetry", "read">>,
         <<"support", "create">>, <<"support", "read">>, <<"support", "update">>})
    \cup ({"Viewer"} \X
        {<<"user", "read">>, <<"organization", "read">>, <<"device", "read">>,
         <<"telemetry", "read">>, <<"support", "read">>,
         <<"notification", "read">>})
    \cup ({"Client"} \X
        {<<"device", "read">>, <<"telemetry", "read">>,
         <<"support", "create">>, <<"support", "read">>,
         <<"notification", "read">>})

(***************************************************************************)
(* utils/auth.py: the decorators.  Each returns the response of the        *)
(* request: status, message, whether the wrapped handler f ran, and the    *)
(* tables it queried.                                                      *)
(***************************************************************************)
Outcome(status, message, ran, lookups) ==
    [status |-> status, message |-> message, ran |-> ran, lookups |-> lookups]

\* user_roles with the slip of an organization filter.
user_roles_of_default_organization(user_id) ==
    {ur \in UserRole : ur[1] = user_id /\ ur[3] = "o1"}

\* UserRole.query.filter_by(user_id=user_id).all()
user_roles(user_id) == {ur \in UserRole : ur[1] = user_id}

\* for user_role in user_roles: role = Role.query.get(user_role.role_id);
\* if role and role.name == 'Super Admin'
has_super_admin(user_id) ==
    \E ur \in user_roles(user_id) : ur[2] \in Role /\ ur[2] = "Super Admin"

\* flask_jwt_extended's jwt_required with the loaders of create_app: every
\* failure of identity resolution is answered 401 before the view is entered.
jwt_required(credential, view) ==
    CASE credential = "expired" ->
            Outcome(401, "Token has expired", FALSE, {})
      [] credential = "missing" ->
            Outcome(401, "Authorization token is missing", FALSE, {})
      [] OTHER -> view

\* The tables a decorator has queried once it reaches a given step: Role and
\* RolePermission are queried once per user_roles row.
Queried(user_id, tables) ==
    IF user_roles(user_id) = {} THEN tables \ {"Role", "RolePermission"}
    ELSE tables

\* The blanket except of both decorators: any exception of the body (the
\* credential check, a storage query) is answered 401.
Unauthenticated(credential) ==
    Outcome(401, "Token is invalid or expired", FALSE,
            IF credential = "valid" THEN {"UserRole"} ELSE {})

\* admin_required with the slip of accepting every role named "...Admin".
admin_required_any_admin(credential, db_ok, user_id, f) ==
    IF credential # "valid" \/ ~db_ok
    THEN Unauthenticated(credential)
    ELSE IF \E ur \in user_roles(user_id) :
                ur[2] \in {"Super Admin", "Admin", "Organization Admin"}
    THEN [f EXCEPT !.ran = TRUE, !.lookups = {"UserRole", "Role"}]
    ELSE Outcome(403, "Admin privileges required", FALSE,
                 Queried(user_id, {"UserRole", "Role"}))

admin_required(credential, db_ok, user_id, f) ==
    IF credential # "valid" \/ ~db_ok
    THEN Unauthenticated(credential)
    ELSE IF has_super_admin(user_id)
    THEN [f EXCEPT !.ran = TRUE, !.lookups = {"UserRole", "Role"}]
    ELSE Outcome(403, "Admin privileges required", FALSE,
                 Queried(user_id, {"UserRole", "Role"}))

\* permission_required with the slip of resolving the Permission row before
\* the Super Admin bypass.
permission_required_lookup_first(credential, db_ok, user_id, resource, action, f) ==
    IF credential # "valid" \/ ~db_ok
    THEN Unauthenticated(credential)
    ELSE IF <<resource, action>> \notin Permission
    THEN Outcome(403, "Permission not found", FALSE,
                 Queried(user_id, {"UserRole", "Permission"}))
    ELSE IF has_super_admin(user_id)
    THEN [f EXCEPT !.ran = TRUE, !.lookups = {"UserRole", "Role", "Permission"}]
    ELSE IF \E ur \in user_roles(user_id) :
                <<ur[2], <<resource, action>>>> \in RolePermission
    THEN [f EXCEPT !.ran = TRUE,
                   !.lookups = {"UserRole", "Role", "Permission", "RolePermission"}]
    ELSE Outcome(403, "Permission denied", FALSE,
                 Queried(user_id,
                         {"UserRole", "Role", "Permission", "RolePermission"}))

\* permission_required with the slip of requiring every role to grant.
permission_required_every_role(credential, db_ok, user_id, resource, action, f) ==
    IF credential # "valid" \/ ~db_ok
    THEN Unauthenticated(credential)
    ELSE IF has_super_admin(user_id)
    THEN [f EXCEPT !.ran = TRUE, !.lookups = {"UserRole", "Role"}]
    ELSE IF <<resource, action>> \notin Permission
    THEN Outcome(403, "Permission not found", FALSE,
                 Queried(user_id, {"UserRole", "Role", "Permission"}))
    ELSE IF \A ur \in user_roles(user_id) :
                <<ur[2], <<resource, action>>>> \in RolePermission
    THEN [f EXCEPT !.ran = TRUE,
                   !.lookups = {"UserRole", "Role", "Permission", "RolePermission"}]
    ELSE Outcome(403, "Permission denied", FALSE,
                 Queried(user_id,
                         {"UserRole", "Role", "Permission", "RolePermission"}))

\* permission_required with the slip of one message for both denials.
permission_required_one_denial(credential, db_ok, user_id, resource, action, f) ==
    IF credential # "valid" \/ ~db_ok
    THEN Unauthenticated(credential)
    ELSE IF has_super_admin(user_id)
    THEN [f EXCEPT !.ran = TRUE, !.lookups = {"UserRole", "Role"}]
    ELSE IF \E ur \in user_roles(user_id) :
                <<ur[2], <<resource, action>>>> \in RolePermission
    THEN [f EXCEPT !.ran = TRUE,
                   !.lookups = {"UserRole", "Role", "Permission", "RolePermission"}]
    ELSE Outcome(403, "Permission denied", FALSE,
                 Queried(user_id,
                         {"UserRole", "Role", "Permission", "RolePermission"}))

\* permission_required with the slip of answering a denial as 401.
permission_required_denial_401(credential, db_ok, user_id, resource, action, f) ==
    IF credential # "valid" \/ ~db_ok
    THEN Unauthenticated(credential)
    ELSE IF has_super_admin(user_id)
    THEN [f EXCEPT !.ran = TRUE, !.lookups = {"UserRole", "Role"}]
    ELSE IF <<resource, action>> \notin Permission
    THEN Outcome(403, "Permission not found", FALSE,
                 Queried(user_id, {"UserRole", "Role", "Permission"}))
    ELSE IF \E ur \in user_roles(user_id) :
                <<ur[2], <<resource, action>>>> \in RolePermission
    THEN [f EXCEPT !.ran = TRUE,
                   !.lookups = {"UserRole", "Role", "Permission", "RolePermission"}]
    ELSE Outcome(401, "Permission denied", FALSE,
                 Queried(user_id,
                         {"UserRole", "Role", "Permission", "RolePermission"}))

permission_required(credential, db_ok, user_id, resource, action, f) ==
    IF credential # "valid" \/ ~db_ok
    THEN Unauthenticated(credential)
    ELSE IF has_super_admin(user_id)
    THEN [f EXCEPT !.ran = TRUE, !.lookups = {"UserRole", "Role"}]
    ELSE IF <<resource, action>> \notin Permission
    THEN Outcome(403, "Permission not found", FALSE,
                 Queried(user_id, {"UserRole", "Role", "Permission"}))
    ELSE IF \E ur \in user_roles(user_id) :
                <<ur[2], <<resource, action>>>> \in RolePermission
    THEN [f EXCEPT !.ran = TRUE,
                   !.lookups = {"UserRole", "Role", "Permission", "RolePermission"}]
    ELSE Outcome(403, "Permission denied", FALSE,
                 Queried(user_id,
                         {"UserRole", "Role", "Permission", "RolePermission"}))

(***************************************************************************)
(* Authorize and AdminOnly: the decision of the decorators for a resolved  *)
(* identity and a reachable store.                                         *)
(***************************************************************************)
HandlerOk == Outcome(200, "ok", TRUE, {})

Decision(o) ==
    IF o.ran THEN "Allow"
    ELSE IF o.status = 401 THEN "Unauthenticated"
    ELSE IF o.message = "Permission not found" THEN "DenyPermissionNotFound"
    ELSE "DenyInsufficient"

Authorize(user_id, resource, action) ==
    Decision(permission_required("valid", TRUE, user_id, resource, action, HandlerOk))

AdminOnly(user_id) ==
    Decision(admin_required("valid", TRUE, user_id, HandlerOk))

(***************************************************************************)
(* Requests.  A request record keeps its inputs beside the outcome.        *)
(***************************************************************************)
NoResponse ==
    [route |-> "none", credential |-> "valid", db_ok |-> TRUE, user_id |-> "u1",
     resource |-> "-", action |-> "-", target |-> "-",
     status |-> 0, message |-> "-", ran |-> FALSE, lookups |-> {}]

Respond(route, credential, db_ok, user_id, resource, action, target, o) ==
    [route |-> route, credential |-> credential, db_ok |-> db_ok,
     user_id |-> user_id, resource |-> resource, action |-> action,
     target |-> target,
     status |-> o.status, message |-> o.message, ran |-> o.ran,
     lookups |-> o.lookups]

\* A route guarded by @jwt_required() and @permission_required(resource,
\* action) whose handler reads only; target is the organization the request
\* is about.
guarded_route(credential, db_ok, user_id, resource, action, target) ==
    /\ response = NoResponse
    /\ response' = Respond("guarded", credential, db_ok, user_id, resource,
                           action, target,
            jwt_required(credential,
                permission_required(credential, db_ok, user_id, resource,
                                    action, HandlerOk)))
    /\ UNCHANGED store
    /\ UNCHANGED outside_store

\* db.session.delete(parent) with rows that name the parent through a
\* relationship that has no delete cascade (User.roles,
\* User.organization_users, Organization.user_roles, Organization.users,
\* Organization.devices, Device.user_terminal_telemetry,
\* Device.router_telemetry): the unit of work sets their foreign key to NULL,
\* a primary-key or NOT NULL column, and the flush raises; the handler's
\* except answers 500 and nothing is deleted.
user_has_dependents(user_id) ==
    \/ \E ur \in UserRole : ur[1] = user_id
    \/ \E ou \in OrganizationUser : ou[2] = user_id

organization_has_dependents(organization_id) ==
    \/ \E ur \in UserRole : ur[3] = organization_id
    \/ \E ou \in OrganizationUser : ou[1] = organization_id
    \/ \E d \in devices : Device[d] = organization_id

device_has_dependents(device_id) ==
    \/ \E r \in RouterTelemetry : r.device_id = device_id
    \/ \E r \in UserTerminalTelemetry : r.device_id = device_id

\* routes/user.py delete_user: @jwt_required() @admin_required
delete_user(credential, db_ok, current_user_id, user_id) ==
    LET f == IF user_id \notin User
             THEN Outcome(404, "User not found", TRUE, {})
             ELSE IF user_has_dependents(user_id)
             THEN Outcome(500, "An error occurred while deleting user",
                          TRUE, {})
             ELSE Outcome(200, "User deleted successfully", TRUE, {})
        o == jwt_required(credential,
                 admin_required(credential, db_ok, current_user_id, f))
    IN /\ response = NoResponse
       /\ response' = Respond("delete_user", credential, db_ok,
                              current_user_id, "-", "-", user_id, o)
       /\ User' = IF o.ran /\ o.status = 200 THEN User \ {user_id} ELSE User
       /\ UNCHANGED <<Role, Permission, RolePermission, UserRole, Organization>>
       /\ UNCHANGED outside_store

\* admin_required(lambda: None)() as update_user calls it: the decorator
\* answers by returning a response (the 403 of a caller who is not Super
\* Admin, the 401 of its blanket except) and raises nothing.
admin_required_inline(credential, db_ok, user_id) ==
    admin_required(credential, db_ok, user_id, Outcome(0, "None", TRUE, {}))

\* routes/user.py update_user: @jwt_required() only.  The row is looked up
\* (404), the value admin_required(lambda: None)() returns is dropped, the
\* body is loaded into the row (400 on a ValidationError) and committed; a
\* storage that does not answer User.query.get ends in the 500 of the
\* handler's except.
update_user(credential, db_ok, current_user_id, user_id, data, valid) ==
    LET checked == IF current_user_id # user_id
                   THEN admin_required_inline(credential, db_ok,
                                              current_user_id)
                   ELSE Outcome(0, "None", TRUE, {})
        f == IF ~db_ok
             THEN Outcome(500, "An error occurred while updating user", TRUE,
                          {"User"})
             ELSE IF user_id \notin User
             THEN Outcome(404, "User not found", TRUE, {"User"})
             ELSE IF ~valid
             THEN Outcome(400, "Validation error", TRUE,
                          {"User"} \cup checked.lookups)
             ELSE Outcome(200, "User updated successfully", TRUE,
                          {"User"} \cup checked.lookups)
        o == jwt_required(credential, f)
    IN /\ response = NoResponse
       /\ response' = Respond("update_user", credential, db_ok,
                              current_user_id, "-", "-", user_id, o)
       /\ first_name' = IF o.ran /\ o.status = 200
                        THEN [first_name EXCEPT ![user_id] = data]
                        ELSE first_name
       /\ UNCHANGED <<store, OrganizationUser, devices, stats>>
       /\ UNCHANGED outside_inventory

\* routes/organization.py delete_organization: @jwt_required() @admin_required
delete_organization(credential, db_ok, current_user_id, organization_id) ==
    LET f == IF organization_id \notin Organization
             THEN Outcome(404, "Organization not found", TRUE, {})
             ELSE IF organization_has_dependents(organization_id)
             THEN Outcome(500, "An error occurred while deleting organization",
                          TRUE, {})
             ELSE Outcome(200, "Organization deleted successfully", TRUE, {})
        o == jwt_required(credential,
                 admin_required(credential, db_ok, current_user_id, f))
    IN /\ response = NoResponse
       /\ response' = Respond("delete_organization", credential, db_ok,
                              current_user_id, "-", "-", organization_id, o)
       /\ Organization' = IF o.ran /\ o.status = 200
                          THEN Organization \ {organization_id}
                          ELSE Organization
       /\ UNCHANGED <<Role, Permission, RolePermission, UserRole, User>>
       /\ UNCHANGED outside_store

\* delete_device with the slip of a relationship that leaves the rows to the
\* database (passive_deletes): ON DELETE CASCADE of the telemetry tables
\* removes the rows of the device.
delete_device_database_cascade(credential, db_ok, current_user_id, device_id) ==
    LET f == IF device_id \notin devices
             THEN Outcome(404, "Device not found", TRUE, {})
             ELSE Outcome(200, "Device deleted successfully", TRUE, {})
        o == jwt_required(credential,
                 permission_required(credential, db_ok, current_user_id,
                                     "device", "delete", f))
    IN /\ response = NoResponse
       /\ response' = Respond("delete_device", credential, db_ok,
                              current_user_id, "device", "delete", device_id, o)
       /\ devices' = IF o.ran /\ o.status = 200
                     THEN devices \ {device_id} ELSE devices
       /\ RouterTelemetry' =
              IF o.ran /\ o.status = 200
              THEN {r \in RouterTelemetry : r.device_id # device_id}
              ELSE RouterTelemetry
       /\ UserTerminalTelemetry' =
              IF o.ran /\ o.status = 200
              THEN {r \in UserTerminalTelemetry : r.device_id # device_id}
              ELSE UserTerminalTelemetry
       /\ UNCHANGED <<store, OrganizationUser, first_name, utcnow, stats_response>>
       /\ UNCHANGED outside_inventory

\* routes/device.py delete_device: @jwt_required()
\* @permission_required('device', 'delete')
delete_device(credential, db_ok, current_user_id, device_id) ==
    LET f == IF device_id \notin devices
             THEN Outcome(404, "Device not found", TRUE, {})
             ELSE IF device_has_dependents(device_id)
             THEN Outcome(500, "An error occurred while deleting device",
                          TRUE, {})
             ELSE Outcome(200, "Device deleted successfully", TRUE, {})
        o == jwt_required(credential,
                 permission_required(credential, db_ok, current_user_id,
                                     "device", "delete", f))
    IN /\ response = NoResponse
       /\ response' = Respond("delete_device", credential, db_ok,
                              current_user_id, "device", "delete", device_id, o)
       /\ devices' = IF o.ran /\ o.status = 200
                     THEN devices \ {device_id} ELSE devices
       /\ UNCHANGED <<store, OrganizationUser, first_name, stats>>
       /\ UNCHANGED outside_inventory

\* routes/organization.py add_organization_user: @jwt_required()
\* @permission_required('organization', 'update').  valid tells whether
\* organization_user_schema.load accepts the body.  The handler writes the
\* organization_users row and nothing else.
add_organization_user(credential, db_ok, current_user_id, organization_id, user_id, valid) ==
    LET f == IF organization_id \notin Organization
             THEN Outcome(404, "Organization not found", TRUE, {})
             ELSE IF ~valid
             THEN Outcome(400, "Validation error", TRUE, {})
             ELSE IF user_id \notin User
             THEN Outcome(404, "User not found", TRUE, {})
             ELSE IF <<organization_id, user_id>> \in OrganizationUser
             THEN Outcome(400, "User is already in organization", TRUE, {})
             ELSE Outcome(201, "User added to organization successfully",
                          TRUE, {})
        o == jwt_required(credential,
                 permission_required(credential, db_ok, current_user_id,
                                     "organization", "update", f))
    IN /\ response = NoResponse
       /\ response' = Respond("add_organization_user", credential, db_ok,
                              current_user_id, "organization", "update",
                              <<organization_id, user_id>>, o)
       /\ OrganizationUser' =
              IF o.ran /\ o.status = 201
              THEN OrganizationUser \cup {<<organization_id, user_id>>}
              ELSE OrganizationUser
       /\ UNCHANGED <<store, devices, first_name, stats>>
       /\ UNCHANGED outside_inventory

\* routes/organization.py remove_organization_user: the handler deletes the
\* organization_users row and nothing else.
remove_organization_user(credential, db_ok, current_user_id, organization_id, user_id) ==
    LET f == IF <<organization_id, user_id>> \in OrganizationUser
             THEN Outcome(200, "User removed from organization successfully",
                          TRUE, {})
             ELSE Outcome(404, "User not found in organization", TRUE, {})
        o == jwt_required(credential,
                 permission_required(credential, db_ok, current_user_id,
                                     "organization", "update", f))
    IN /\ response = NoResponse
       /\ response' = Respond("remove_organization_user", credential, db_ok,
                              current_user_id, "organization", "update",
                              <<organization_id, user_id>>, o)
       /\ OrganizationUser' =
              IF o.ran /\ o.status = 200
              THEN OrganizationUser \ {<<organization_id, user_id>>}
              ELSE OrganizationUser
       /\ UNCHANGED <<store, devices, first_name, stats>>
       /\ UNCHANGED outside_inventory

\* UserRole(user_id=..., role_id=...) names no organization.
NoOrganization == "none"

AdminEmail == "admin@example.com"

\* routes/auth.py register, the handler body as written: register_schema.load
\* validates the body (valid), User(...) is the row of the columns the call
\* passes, and a user is known by its email.  user_commit and role_commit
\* tell whether the storage carries out the commit of line 43 and of line 50.
register(email, valid, user_commit, role_commit) ==
    LET status ==
            IF ~valid THEN 400
            ELSE IF email \in User THEN 409
            ELSE IF ~user_commit THEN 500
            ELSE IF "Client" \in Role /\ ~role_commit THEN 500
            ELSE 201
        message ==
            IF status = 400 THEN "Validation error"
            ELSE IF status = 409 THEN "Email already registered"
            ELSE IF status = 500 THEN "An error occurred during registration"
            ELSE "User registered successfully"
        \* db.session.commit() of line 43 went through
        user_committed == valid /\ email \notin User /\ user_commit
    IN /\ response = NoResponse
       /\ response' = Respond("register", "none", user_commit /\ role_commit,
                              "-", "-", "-", email,
                              Outcome(status, message, valid, {}))
       /\ User' = IF user_committed THEN User \cup {email} ELSE User
       \* the rollback of line 63 discards the pending UserRole only
       /\ UserRole' = IF user_committed /\ "Client" \in Role /\ role_commit
                      THEN UserRole \cup {<<email, "Client", NoOrganization>>}
                      ELSE UserRole
       /\ UNCHANGED <<Role, Permission, RolePermission, Organization>>
       /\ UNCHANGED outside_store

\* utils/init_db.py create_admin_user('admin@example.com', ...): the same two
\* commits, with no handler around them.
create_admin_user(user_commit, role_commit) ==
    LET user_committed == AdminEmail \notin User /\ user_commit
    IN /\ response = NoResponse
       /\ response' = NoResponse
       /\ User' = IF user_committed THEN User \cup {AdminEmail} ELSE User
       /\ UserRole' = IF user_committed /\ "Super Admin" \in Role /\ role_commit
                      THEN UserRole \cup
                               {<<AdminEmail, "Super Admin", NoOrganization>>}
                      ELSE UserRole
       /\ UNCHANGED <<Role, Permission, RolePermission, Organization>>
       /\ UNCHANGED outside_store

(***************************************************************************)
(* The store's own operations.                                             *)
(***************************************************************************)
\* The three tables init_roles_and_permissions writes, as one value.
Catalog(roles, permissions, role_permissions) ==
    [Role |-> roles, Permission |-> permissions,
     RolePermission |-> role_permissions]

\* The seeding with the slip of filling role_objects only with the roles it
\* creates: the edges of the roles found in the table are cleared and not
\* assigned again.
seeded_catalog_new_roles_only(t) ==
    Catalog(t.Role \cup SeedRoles, t.Permission \cup SeedPermissions,
            {rp \in SeedRolePermissions : rp[1] \notin t.Role})

\* What init_roles_and_permissions leaves in the tables t: a role and a
\* permission are added where the query by name, or by (resource, action),
\* finds none; RolePermission.query.delete() clears the edges and the loop
\* assigns the listed ones.
seeded_catalog(t) ==
    Catalog(t.Role \cup SeedRoles, t.Permission \cup SeedPermissions,
            SeedRolePermissions)

\* utils/init_db.py init_roles_and_permissions
init_roles_and_permissions ==
    /\ LET t == seeded_catalog(Catalog(Role, Permission, RolePermission))
       IN /\ Role' = t.Role
          /\ Permission' = t.Permission
          /\ RolePermission' = t.RolePermission
    /\ response = NoResponse
    /\ response' = NoResponse
    /\ UNCHANGED <<UserRole, User, Organization>>
    /\ UNCHANGED outside_store

\* A user_roles row is inserted; its three key columns are foreign keys.
AddUserRole(user_id, role, organization_id) ==
    /\ user_id \in User /\ role \in Role /\ organization_id \in Organization
    /\ <<user_id, role, organization_id>> \notin UserRole
    /\ Cardinality(UserRole) < MaxUserRoles
    /\ UserRole' = UserRole \cup {<<user_id, role, organization_id>>}
    /\ response = NoResponse
    /\ response' = NoResponse
    /\ UNCHANGED <<Role, Permission, RolePermission, User, Organization>>
    /\ UNCHANGED outside_store

RemoveUserRole(ur) ==
    /\ ur \in UserRole
    /\ UserRole' = UserRole \ {ur}
    /\ response = NoResponse
    /\ response' = NoResponse
    /\ UNCHANGED <<Role, Permission, RolePermission, User, Organization>>
    /\ UNCHANGED outside_store

\* A role_permissions row is inserted; both key columns are foreign keys.
AddRolePermission(role, permission) ==
    /\ role \in Role /\ permission \in Permission
    /\ <<role, permission>> \notin RolePermission
    /\ RolePermission' = RolePermission \cup {<<role, permission>>}
    /\ response = NoResponse
    /\ response' = NoResponse
    /\ UNCHANGED <<Role, Permission, UserRole, User, Organization>>
    /\ UNCHANGED outside_store

RemoveRolePermission(role, permission) ==
    /\ <<role, permission>> \in RolePermission
    /\ RolePermission' = RolePermission \ {<<role, permission>>}
    /\ response = NoResponse
    /\ response' = NoResponse
    /\ UNCHANGED <<Role, Permission, UserRole, User, Organization>>
    /\ UNCHANGED outside_store

\* The response is returned to the client; the next unit of work begins.
send_response ==
    /\ response # NoResponse
    /\ response' = NoResponse
    /\ UNCHANGED store
    /\ UNCHANGED outside_store

(***************************************************************************)
(* utils/starlink_api.py: StarlinkAPI.  A fetch is one top-level call of   *)
(* get_telemetry; its steps are the statements between which another       *)
(* thread, or the clock, can act.                                          *)
(***************************************************************************)
None == 0
TOKEN_REFRESH_SECONDS == 14 * 60

\* What the telemetry endpoint answers: 2xx, 401, another non-2xx status, or
\* no answer at all (requests raises).
TelemetryReplies == {"200", "401", "500", "transport"}

ThreadIds == {1, 2}

ClientInit(ts) ==
    /\ access_token = None
    /\ token_expiry = 0
    /\ now = 0
    /\ threads = ts
    /\ pc = [t \in ts |-> "idle"]
    /\ current_time = [t \in ts |-> 0]
    /\ depth = [t \in ts |-> 0]
    /\ bearer = [t \in ts |-> None]
    /\ log = [t \in ts |-> <<>>]
    /\ result = [t \in ts |-> "none"]
    /\ caller = [t \in ts |-> "none"]
    /\ http = [t \in ts |-> 0]
    /\ fetches = [t \in ts |-> 0]
    /\ issued = 0
    /\ acquired_at = 0
    /\ checked_at = 0

\* Fetches a thread may start: fewer when threads share the client.
FetchBudget == IF Cardinality(threads) > 1 THEN SharedFetches ELSE MaxFetches

TickBudget == IF Cardinality(threads) > 1 THEN SharedTicks ELSE MaxTicks

\* The frame of a top-level get_telemetry call.
EnterFetch(t, from) ==
    /\ pc' = [pc EXCEPT ![t] = "ensure"]
    /\ caller' = [caller EXCEPT ![t] = from]
    /\ depth' = [depth EXCEPT ![t] = 0]
    /\ log' = [log EXCEPT ![t] = <<>>]
    /\ result' = [result EXCEPT ![t] = "none"]
    /\ http' = [http EXCEPT ![t] = 0]
    /\ fetches' = [fetches EXCEPT ![t] = @ + 1]

\* routes/telemetry.py sync_telemetry up to the call of get_telemetry: the
\* handler builds a client of its own, which no other request holds.
sync_telemetry(t, account_number) ==
    /\ pc[t] = "idle"
    /\ fetches[t] < FetchBudget
    /\ IF account_number
       THEN /\ EnterFetch(t, "sync_telemetry")
            /\ access_token' = None
            /\ token_expiry' = 0
       ELSE /\ http' = [http EXCEPT ![t] = 400]
            /\ caller' = [caller EXCEPT ![t] = "sync_telemetry"]
            /\ log' = [log EXCEPT ![t] = <<>>]
            /\ result' = [result EXCEPT ![t] = "none"]
            /\ UNCHANGED <<pc, depth, fetches, access_token, token_expiry>>
    /\ UNCHANGED <<now, threads, current_time, bearer, issued, acquired_at,
                   checked_at>>
    /\ UNCHANGED outside_client

\* get_telemetry called on the instance as it stands (as
\* get_user_terminal_telemetry, get_router_telemetry and get_ip_allocations do).
get_telemetry(t) ==
    /\ pc[t] = "idle"
    /\ fetches[t] < FetchBudget
    /\ EnterFetch(t, "method")
    /\ UNCHANGED <<access_token, token_expiry, now, threads, current_time,
                   bearer, issued, acquired_at, checked_at>>
    /\ UNCHANGED outside_client

\* _ensure_token with the slip of > for >=.
ensure_token_needs_refresh_late(t) ==
    access_token = None \/ now > token_expiry

\* _ensure_token: not self.access_token or current_time >= self.token_expiry
ensure_token_needs_refresh(t) ==
    access_token = None \/ now >= token_expiry

\* _ensure_token up to the call of get_starlink_access_token.
ensure_token(t) ==
    /\ pc[t] = "ensure"
    /\ current_time' = [current_time EXCEPT ![t] = now]
    /\ IF ensure_token_needs_refresh(t)
       THEN /\ pc' = [pc EXCEPT ![t] = "token_request"]
            /\ log' = [log EXCEPT ![t] = Append(@, "token")]
       ELSE /\ pc' = [pc EXCEPT ![t] = "send"]
            /\ UNCHANGED log
    /\ UNCHANGED <<access_token, token_expiry, now, threads, depth, bearer,
                   result, http, fetches, issued, acquired_at, checked_at, caller>>
    /\ UNCHANGED outside_client

\* get_starlink_access_token returns: the token of a 2xx answer, or None for
\* any failure; self.access_token is assigned.
get_starlink_access_token(t, ok) ==
    /\ pc[t] = "token_request"
    /\ IF ok
       THEN /\ issued' = issued + 1
            /\ access_token' = issued + 1
            /\ acquired_at' = now
            /\ checked_at' = current_time[t]
       ELSE /\ access_token' = None
            /\ UNCHANGED <<issued, acquired_at, checked_at>>
    /\ pc' = [pc EXCEPT ![t] = "token_check"]
    /\ UNCHANGED <<token_expiry, now, threads, current_time, depth, bearer,
                   log, result, http, fetches, caller>>
    /\ UNCHANGED outside_client

\* The expiry with the slip of the vendor's 15 minutes.
expiry_of_vendor_lifetime(t) == current_time[t] + 15 * 60

\* current_time + 14 * 60
expiry_of(t) == current_time[t] + TOKEN_REFRESH_SECONDS

\* _ensure_token after the call, with the slip of a missing else: raise: the
\* request goes out whether or not a token came back.
ensure_token_check_no_raise(t) ==
    /\ pc[t] = "token_check"
    /\ token_expiry' = IF access_token # None THEN expiry_of(t) ELSE token_expiry
    /\ pc' = [pc EXCEPT ![t] = "send"]
    /\ UNCHANGED <<access_token, now, threads, current_time, depth, bearer,
                   log, result, http, fetches, issued, acquired_at, checked_at,
                   caller>>
    /\ UNCHANGED outside_client

\* _ensure_token after the call: if self.access_token, the expiry is set;
\* else the exception reaches the except of get_telemetry, which returns None.
ensure_token_check(t) ==
    /\ pc[t] = "token_check"
    /\ IF access_token # None
       THEN /\ token_expiry' = expiry_of(t)
            /\ pc' = [pc EXCEPT ![t] = "send"]
            /\ UNCHANGED result
       ELSE /\ result' = [result EXCEPT ![t] = "error"]
            /\ pc' = [pc EXCEPT ![t] = "return"]
            /\ UNCHANGED token_expiry
    /\ UNCHANGED <<access_token, now, threads, current_time, depth, bearer,
                   log, http, fetches, issued, acquired_at, checked_at, caller>>
    /\ UNCHANGED outside_client

\* requests.post of the telemetry request; the header reads self.access_token.
send_telemetry(t) ==
    /\ pc[t] = "send"
    /\ bearer' = [bearer EXCEPT ![t] = access_token]
    /\ log' = [log EXCEPT ![t] = Append(@, "telemetry")]
    /\ pc' = [pc EXCEPT ![t] = "await"]
    /\ UNCHANGED <<access_token, token_expiry, now, threads, current_time,
                   depth, result, http, fetches, issued, acquired_at,
                   checked_at, caller>>
    /\ UNCHANGED outside_client

\* What get_telemetry does with a reply that is not 401, with the slip of
\* returning the body whatever the status.
reply_result_unchecked(reply) == IF reply = "transport" THEN "error" ELSE "ok"

\* response.raise_for_status(); return response.json(), and the except.
reply_result(reply) == IF reply = "200" THEN "ok" ELSE "error"

\* The reply arrives: a 401 clears self.access_token; any other reply ends the
\* fetch.
telemetry_reply(t, reply) ==
    /\ pc[t] = "await"
    /\ log' = [log EXCEPT ![t] = Append(@, reply)]
    /\ IF reply = "401"
       THEN /\ access_token' = None
            /\ pc' = [pc EXCEPT ![t] = "clear_expiry"]
            /\ UNCHANGED result
       ELSE /\ result' = [result EXCEPT ![t] = reply_result(reply)]
            /\ pc' = [pc EXCEPT ![t] = "return"]
            /\ UNCHANGED access_token
    /\ UNCHANGED <<token_expiry, now, threads, current_time, depth, bearer,
                   http, fetches, issued, acquired_at, checked_at, caller>>
    /\ UNCHANGED outside_client

\* The retry with the slip of a loop in place of the nested call: nothing
\* stops the next attempt.
retry_unbounded(t) ==
    /\ pc[t] = "clear_expiry"
    /\ token_expiry' = 0
    /\ depth' = [depth EXCEPT ![t] = @ + 1]
    /\ pc' = [pc EXCEPT ![t] = "ensure"]
    /\ UNCHANGED <<access_token, now, threads, current_time, bearer, log,
                   result, http, fetches, issued, acquired_at, checked_at,
                   caller>>
    /\ UNCHANGED outside_client

\* After a 401: self.token_expiry = 0, then get_telemetry calls itself; past
\* the interpreter's recursion limit the call raises and the except returns
\* None.
retry(t) ==
    /\ pc[t] = "clear_expiry"
    /\ token_expiry' = 0
    /\ IF depth[t] + 1 < RecursionLimit
       THEN /\ depth' = [depth EXCEPT ![t] = @ + 1]
            /\ pc' = [pc EXCEPT ![t] = "ensure"]
            /\ UNCHANGED result
       ELSE /\ result' = [result EXCEPT ![t] = "error"]
            /\ pc' = [pc EXCEPT ![t] = "return"]
            /\ UNCHANGED depth
    /\ UNCHANGED <<access_token, now, threads, current_time, bearer, log,
                   http, fetches, issued, acquired_at, checked_at, caller>>
    /\ UNCHANGED outside_client

\* sync_telemetry after get_telemetry: if not telemetry_data, 500.
sync_status(r) == IF r = "ok" THEN 200 ELSE 500

\* The outermost frame returns to its caller.
return_to_caller(t) ==
    /\ pc[t] = "return"
    /\ pc' = [pc EXCEPT ![t] = "idle"]
    /\ http' = [http EXCEPT ![t] = IF caller[t] = "sync_telemetry"
                                   THEN sync_status(result[t]) ELSE 0]
    /\ UNCHANGED <<access_token, token_expiry, now, threads, current_time,
                   depth, bearer, log, result, caller, fetches, issued,
                   acquired_at, checked_at>>
    /\ UNCHANGED outside_client

\* time.time() advances.
Tick ==
    /\ now < TickBudget * ClockStep
    /\ now' = now + ClockStep
    /\ UNCHANGED <<access_token, token_expiry, threads, pc, current_time,
                   depth, bearer, log, result, http, fetches, issued,
                   acquired_at, checked_at, caller>>
    /\ UNCHANGED outside_client

ClientStep(t) ==
    \/ get_telemetry(t)
    \/ ensure_token(t)
    \/ \E ok \in BOOLEAN : get_starlink_access_token(t, ok)
    \/ ensure_token_check(t)
    \/ send_telemetry(t)
    \/ \E reply \in TelemetryReplies : telemetry_reply(t, reply)
    \/ retry(t)
    \/ return_to_caller(t)

(***************************************************************************)
(* utils/starlink_api.py process_telemetry_data, and the callers that file *)
(* its records: the getters of StarlinkAPI and the sync_telemetry route.   *)
(* A body is what response.json() gave for a 2xx reply: kind "empty" is a  *)
(* falsy body such as {}, "no_data" an object without a data key, "data"   *)
(* an object with data.columnNamesByDeviceType and data.values.            *)
(***************************************************************************)
\* Rows a payload carries.
MaxRows == 2

DeviceTypes == {"u", "r", "i", "z"}

ColumnLists ==
    {<<"DeviceType", "X">>, <<"DeviceType", "X", "Y">>, <<"X", "DeviceType">>,
     <<"Type", "X">>, <<"DeviceType", "X", "X">>, <<>>}

\* A payload names one list for each device type it knows.
ColumnMaps ==
    {[t \in S |-> L] : S \in {{}, {"r", "i"}, {"u", "r", "i"}, DeviceTypes},
                       L \in ColumnLists}

RowTails == {<<>>, <<"a">>, <<"r">>, <<"a", "r">>, <<"r", "a">>}

Rows == {<<>>} \cup {<<t>> \o tail : t \in DeviceTypes, tail \in RowTails}

EmptyBody == [kind |-> "empty", columnNamesByDeviceType |-> <<>>, values |-> <<>>]
NoDataBody == [kind |-> "no_data", columnNamesByDeviceType |-> <<>>, values |-> <<>>]

Bodies ==
    {EmptyBody, NoDataBody} \cup
    {[kind |-> "data", columnNamesByDeviceType |-> m, values |-> v] :
        m \in ColumnMaps, v \in UNION {[1..n -> Rows] : n \in 0..MaxRows}}

\* dict.get(key, default)
dict_get(d, key, default) == IF key \in DOMAIN d THEN d[key] ELSE default

\* The slip of skipping only lists longer than the row.
row_accepted_prefix(column_names_by_device_type, row) ==
    /\ ~(row = <<>> \/ Len(row) < 2)
    /\ LET column_names == dict_get(column_names_by_device_type, row[1], <<>>)
       IN ~(column_names = <<>> \/ Len(column_names) > Len(row))

\* The two `continue` conditions of the row loop, negated.
row_accepted(column_names_by_device_type, row) ==
    /\ ~(row = <<>> \/ Len(row) < 2)
    /\ LET column_names == dict_get(column_names_by_device_type, row[1], <<>>)
       IN ~(column_names = <<>> \/ Len(column_names) # Len(row))

\* The slip of pairing the names with the values after the discriminator.
row_dict_shifted(column_names, row) ==
    [name \in {column_names[i] : i \in 1..Len(column_names)} |->
        LET last == CHOOSE i \in 1..Len(column_names) :
                        /\ column_names[i] = name
                        /\ \A j \in 1..Len(column_names) :
                               column_names[j] = name => j <= i
        IN row[(last % Len(column_names)) + 1]]

\* row_dict[column_name] = row[i] for i in order: the last write of a name
\* stays.
row_dict(column_names, row) ==
    [name \in {column_names[i] : i \in 1..Len(column_names)} |->
        LET last == CHOOSE i \in 1..Len(column_names) :
                        /\ column_names[i] = name
                        /\ \A j \in 1..Len(column_names) :
                               column_names[j] = name => j <= i
        IN row[last]]

\* The row loop.
RECURSIVE process_rows(_, _)
process_rows(column_names_by_device_type, values) ==
    IF values = <<>> THEN <<>>
    ELSE LET row == Head(values)
             rest == process_rows(column_names_by_device_type, Tail(values))
         IN IF row_accepted(column_names_by_device_type, row)
            THEN <<row_dict(column_names_by_device_type[row[1]], row)>> \o rest
            ELSE rest

\* The None that process_telemetry_data returns.
ProcessedNone == [none |-> TRUE, data |-> <<>>]

process_telemetry_data(body) ==
    IF body.kind \in {"empty", "no_data"}
    THEN ProcessedNone
    ELSE [none |-> FALSE,
          data |-> process_rows(body.columnNamesByDeviceType, body.values)]

\* row.get('DeviceType') == device_type, over the processed records.
stream_of(data, device_type) ==
    SelectSeq(data, LAMBDA rec : dict_get(rec, "DeviceType", "None") = device_type)

NotFiled ==
    [by |-> "none", status |-> 0, user_terminal |-> <<>>, router |-> <<>>,
     ip_allocation |-> <<>>]

\* sync_telemetry from the return of get_telemetry on: the 500 of a falsy
\* body, the 500 of a None from process_telemetry_data, else the three
\* counters, kept here as the rows each counter counted.
sync_telemetry_rows ==
    /\ filed = NotFiled
    /\ IF telemetry_data.kind = "empty"
       THEN /\ filed' = [NotFiled EXCEPT !.by = "sync_telemetry", !.status = 500]
            /\ UNCHANGED processed_data
       ELSE /\ processed_data' = process_telemetry_data(telemetry_data)
            /\ IF processed_data'.none
               THEN filed' = [NotFiled EXCEPT !.by = "sync_telemetry",
                                              !.status = 500]
               ELSE filed' =
                      [by |-> "sync_telemetry", status |-> 200,
                       user_terminal |-> stream_of(processed_data'.data, "u"),
                       router |-> stream_of(processed_data'.data, "r"),
                       ip_allocation |-> stream_of(processed_data'.data, "i")]
    /\ UNCHANGED telemetry_data
    /\ UNCHANGED outside_decoder

\* What a getter returns for device_type: [] for a falsy body or a None.
getter_rows(device_type) ==
    IF telemetry_data.kind = "empty" THEN <<>>
    ELSE stream_of(process_telemetry_data(telemetry_data).data, device_type)

get_user_terminal_telemetry ==
    /\ filed = NotFiled
    /\ processed_data' = IF telemetry_data.kind = "empty" THEN processed_data
                         ELSE process_telemetry_data(telemetry_data)
    /\ filed' = [NotFiled EXCEPT !.by = "get_user_terminal_telemetry",
                                 !.user_terminal = getter_rows("u")]
    /\ UNCHANGED telemetry_data
    /\ UNCHANGED outside_decoder

get_router_telemetry ==
    /\ filed = NotFiled
    /\ processed_data' = IF telemetry_data.kind = "empty" THEN processed_data
                         ELSE process_telemetry_data(telemetry_data)
    /\ filed' = [NotFiled EXCEPT !.by = "get_router_telemetry",
                                 !.router = getter_rows("r")]
    /\ UNCHANGED telemetry_data
    /\ UNCHANGED outside_decoder

get_ip_allocations ==
    /\ filed = NotFiled
    /\ processed_data' = IF telemetry_data.kind = "empty" THEN processed_data
                         ELSE process_telemetry_data(telemetry_data)
    /\ filed' = [NotFiled EXCEPT !.by = "get_ip_allocations",
                                 !.ip_allocation = getter_rows("i")]
    /\ UNCHANGED telemetry_data
    /\ UNCHANGED outside_decoder

DecoderIdle ==
    /\ telemetry_data = EmptyBody
    /\ processed_data = ProcessedNone
    /\ filed = NotFiled

(***************************************************************************)
(* routes/telemetry.py get_usage_stats and get_performance_stats.  Times   *)
(* are in days; a Float column holds an integer here, and an average is    *)
(* kept exact as <<sum, count>> until it is rounded.                       *)
(***************************************************************************)
\* Rows a telemetry table holds.
MaxTelemetryRows == 2

NULL == -1
Absent == "absent"

RowTimes == {1, 2, 24, 25, 30, 31, 32}
NowChoices == {31, 32}

\* <<wan_tx_bytes, wan_rx_bytes>> of a router row.
RouterCounters == {<<1, 2>>, <<NULL, 2>>}

RouterRows ==
    {[time |-> t, device_id |-> d, wan_tx_bytes |-> c[1], wan_rx_bytes |-> c[2]] :
        t \in RowTimes, d \in DeviceIds, c \in RouterCounters}

Metrics ==
    {"downlink_throughput", "uplink_throughput", "ping_latency_ms_avg",
     "ping_drop_rate_avg", "obstruction_percent_time", "signal_quality"}

MetricChoices ==
    {[m \in Metrics |-> NULL],
     [m \in Metrics |-> IF m = "ping_drop_rate_avg" THEN NULL ELSE 1],
     [m \in Metrics |-> IF m = "uplink_throughput" THEN 1 ELSE 2]}

TerminalRows ==
    {[time |-> t, device_id |-> d, metrics |-> v] :
        t \in {1, 24, 30, 31, 32}, d \in DeviceIds, v \in MetricChoices}

\* Tables keep (time, device_id) unique: it is the primary key.
TablesOf(rows) ==
    {T \in {{}} \cup {{r1, r2, r3} : r1 \in rows, r2 \in rows, r3 \in rows} :
        /\ Cardinality(T) <= MaxTelemetryRows
        /\ \A a \in T, b \in T :
              (a.time = b.time /\ a.device_id = b.device_id) => a = b}

RequestDevices == {Absent, "d1"}
RequestOrganizations == {Absent, "o1", "o2"}
RequestPeriods == {Absent, "day", "week", "month", "year"}

\* request.args.get(name, default)
args_get(value, default) == IF value = Absent THEN default ELSE value

\* The slip of a calendar month of 31 days.
start_time_of_calendar_month(period, end_time) ==
    IF period = "day" THEN end_time - 1
    ELSE IF period = "week" THEN end_time - 7
    ELSE IF period = "month" THEN end_time - 31
    ELSE NULL

\* timedelta(days=1), timedelta(weeks=1), timedelta(days=30); NULL stands for
\* the else branch, which answers 400.
start_time_of(period, end_time) ==
    IF period = "day" THEN end_time - 1
    ELSE IF period = "week" THEN end_time - 7
    ELSE IF period = "month" THEN end_time - 30
    ELSE NULL

\* The slip of falling back to a day for an unknown period.
period_known_lenient(period) == TRUE

period_known(period) == period \in {"day", "week", "month"}

\* The filters of the query: device_id, the join with Device on
\* organization_id, and time BETWEEN start_time AND end_time.
query_filter(table, device_id, organization_id, start_time, end_time) ==
    {r \in table :
        /\ device_id # Absent => r.device_id = device_id
        /\ organization_id # Absent => Device[r.device_id] = organization_id
        /\ start_time <= r.time /\ r.time <= end_time}

RECURSIVE SumOf(_)
SumOf(values) ==
    IF values = {} THEN 0
    ELSE LET v == CHOOSE x \in values : TRUE
         IN v[2] + SumOf(values \ {v})

\* A column of a set of rows is each value tagged with its row; these are its
\* non-NULL values.
non_null(column) == {p \in column : p[2] # NULL}

\* The slip of a sum that a NULL makes NULL.
func_sum_strict(column) ==
    IF column = {} \/ \E p \in column : p[2] = NULL THEN NULL
    ELSE SumOf(column)

\* SQL SUM: NULL over no non-NULL value.
func_sum(column) ==
    IF non_null(column) = {} THEN NULL ELSE SumOf(non_null(column))

\* SQL AVG: NULL over no non-NULL value, else the exact <<sum, count>>.
func_avg(column) ==
    IF non_null(column) = {} THEN <<NULL, 0>>
    ELSE <<SumOf(non_null(column)), Cardinality(non_null(column))>>

\* `x or 0` for a sum.
or_zero(x) == IF x = NULL THEN 0 ELSE x

RECURSIVE Pow10(_)
Pow10(n) == IF n = 0 THEN 1 ELSE 10 * Pow10(n - 1)

\* round(x, digits) of a non-negative x, in units of 10^-digits (no value of
\* the model lies halfway between two of them).
round_to(numerator, denominator, digits) ==
    LET scaled == numerator * Pow10(digits)
        rest == scaled % denominator
    IN (scaled \div denominator)
           + (IF rest >= denominator - rest THEN 1 ELSE 0)

\* The slip of rounding the average without the `or 0`.
rounded_avg_unguarded(avg, digits) ==
    IF avg[1] = NULL THEN NULL ELSE round_to(avg[1], avg[2], digits)

\* round(result.avg or 0, digits)
rounded_avg(avg, digits) ==
    IF avg[1] = NULL THEN 0 ELSE round_to(avg[1], avg[2], digits)

BYTES_PER_GB == 1024 * 1024 * 1024

NoStats ==
    [handler |-> "none", status |-> 0, queried |-> FALSE, request |-> <<>>,
     body |-> <<>>]

StatsError(handler, request) ==
    [handler |-> handler, status |-> 400, queried |-> FALSE,
     request |-> request, body |-> <<>>]

get_usage_stats(device_id, organization_id, period_arg) ==
    /\ stats_response = NoStats
    /\ LET period == args_get(period_arg, "day")
           request == <<device_id, organization_id, period_arg>>
           end_time == utcnow
           start_time == start_time_of(period, end_time)
           rows == query_filter(RouterTelemetry, device_id, organization_id,
                                start_time, end_time)
           total_tx_bytes == or_zero(func_sum({<<r, r.wan_tx_bytes>> : r \in rows}))
           total_rx_bytes == or_zero(func_sum({<<r, r.wan_rx_bytes>> : r \in rows}))
           total_bytes == total_tx_bytes + total_rx_bytes
       IN stats_response' =
            IF device_id = Absent /\ organization_id = Absent
            THEN StatsError("get_usage_stats", request)
            ELSE IF ~period_known(period)
            THEN StatsError("get_usage_stats", request)
            ELSE [handler |-> "get_usage_stats", status |-> 200,
                  queried |-> TRUE, request |-> request,
                  body |-> [period |-> period,
                            start_time |-> start_time,
                            end_time |-> end_time,
                            upload_bytes |-> total_tx_bytes,
                            download_bytes |-> total_rx_bytes,
                            total_bytes |-> total_bytes,
                            upload_gb |-> round_to(total_tx_bytes, BYTES_PER_GB, 2),
                            download_gb |-> round_to(total_rx_bytes, BYTES_PER_GB, 2),
                            total_gb |-> round_to(total_bytes, BYTES_PER_GB, 2)]]
    /\ UNCHANGED <<RouterTelemetry, UserTerminalTelemetry, utcnow>>
    /\ UNCHANGED outside_stats

get_performance_stats(device_id, organization_id, period_arg) ==
    /\ stats_response = NoStats
    /\ LET period == args_get(period_arg, "day")
           request == <<device_id, organization_id, period_arg>>
           end_time == utcnow
           start_time == start_time_of(period, end_time)
           rows == query_filter(UserTerminalTelemetry, device_id,
                                organization_id, start_time, end_time)
           avg(m) == func_avg({<<r, r.metrics[m]>> : r \in rows})
       IN stats_response' =
            IF device_id = Absent /\ organization_id = Absent
            THEN StatsError("get_performance_stats", request)
            ELSE IF ~period_known(period)
            THEN StatsError("get_performance_stats", request)
            ELSE [handler |-> "get_performance_stats", status |-> 200,
                  queried |-> TRUE, request |-> request,
                  body |-> [period |-> period,
                            start_time |-> start_time,
                            end_time |-> end_time,
                            avg_downlink_throughput |->
                                rounded_avg(avg("downlink_throughput"), 2),
                            avg_uplink_throughput |->
                                rounded_avg(avg("uplink_throughput"), 2),
                            avg_ping_latency |->
                                rounded_avg(avg("ping_latency_ms_avg"), 2),
                            avg_ping_drop_rate |->
                                rounded_avg(avg("ping_drop_rate_avg"), 4),
                            avg_obstruction_percent |->
                                rounded_avg(avg("obstruction_percent_time"), 2),
                            avg_signal_quality |->
                                rounded_avg(avg("signal_quality"), 2)]]
    /\ UNCHANGED <<RouterTelemetry, UserTerminalTelemetry, utcnow>>
    /\ UNCHANGED outside_stats

StatsIdle ==
    /\ RouterTelemetry = {}
    /\ UserTerminalTelemetry = {}
    /\ utcnow = 0
    /\ stats_response = NoStats

\* No membership and no device is on record.
InventoryIdle ==
    /\ OrganizationUser = {}
    /\ devices = {}
    /\ first_name = [u \in UserIds |-> "a"]

vars ==
    <<Role, Permission, RolePermission, UserRole, User, Organization, response,
      access_token, token_expiry, now, threads, pc, current_time, depth,
      bearer, log, result, caller, http, fetches, issued, acquired_at,
      checked_at, telemetry_data, processed_data, filed, RouterTelemetry,
      UserTerminalTelemetry, utcnow, stats_response, OrganizationUser,
      devices, first_name>>

\* The database before the bootstrap, holding users and organizations.
Init ==
    /\ Role = {}
    /\ Permission = {}
    /\ RolePermission = {}
    /\ UserRole = {}
    /\ User = UserIds
    /\ Organization = OrgIds
    /\ response = NoResponse
    /\ ClientInit({})
    /\ DecoderIdle
    /\ StatsIdle
    /\ InventoryIdle

StoreStep ==
    \/ init_roles_and_permissions
    \/ \E u \in UserIds, r \in InputRoles, o \in OrgIds : AddUserRole(u, r, o)
    \/ \E ur \in UserRole : RemoveUserRole(ur)
    \/ \E r \in InputRoles, p \in InputPermissions : AddRolePermission(r, p)
    \/ \E r \in InputRoles, p \in InputPermissions : RemoveRolePermission(r, p)
    \/ \E i \in Identities, p \in InputPermissions, o \in OrgIds :
            guarded_route(i[1], i[2], i[3], p[1], p[2], o)
    \/ \E i \in Identities, t \in UserIds : delete_user(i[1], i[2], i[3], t)
    \/ \E i \in Identities, t \in OrgIds :
            delete_organization(i[1], i[2], i[3], t)
    \/ send_response

Next == StoreStep

Spec == Init /\ [][Next]_vars

\* One thread and one client at a time: sync_telemetry requests handled one
\* after the other, and calls on a client that is kept.
StoreIdle ==
    /\ Role = {} /\ Permission = {} /\ RolePermission = {} /\ UserRole = {}
    /\ User = {} /\ Organization = {}
    /\ response = NoResponse
    /\ InventoryIdle

InitClient == StoreIdle /\ ClientInit({1}) /\ DecoderIdle /\ StatsIdle

NextClient ==
    \/ \E a \in BOOLEAN : sync_telemetry(1, a)
    \/ ClientStep(1)
    \/ Tick

SpecClient == InitClient /\ [][NextClient]_vars

\* The thread that is inside get_telemetry keeps running, and each of its
\* requests is answered or fails.
SpecClientFair == SpecClient /\ WF_vars(ClientStep(1))

\* Several threads calling into one client.
InitShared == StoreIdle /\ ClientInit(ThreadIds) /\ DecoderIdle /\ StatsIdle

NextShared ==
    \/ \E t \in ThreadIds : ClientStep(t)
    \/ Tick

SpecShared == InitShared /\ [][NextShared]_vars

\* A 2xx body arrives and one of the callers of process_telemetry_data files
\* its rows.
InitDecode ==
    /\ StoreIdle /\ ClientInit({}) /\ StatsIdle
    /\ telemetry_data \in Bodies
    /\ processed_data = ProcessedNone
    /\ filed = NotFiled

NextDecode ==
    \/ sync_telemetry_rows
    \/ get_user_terminal_telemetry
    \/ get_router_telemetry
    \/ get_ip_allocations

SpecDecode == InitDecode /\ [][NextDecode]_vars

\* A statistics request against a telemetry table, at some time of day.
InitStats ==
    /\ StoreIdle /\ ClientInit({}) /\ DecoderIdle
    /\ \/ RouterTelemetry \in TablesOf(RouterRows) /\ UserTerminalTelemetry = {}
       \/ RouterTelemetry = {} /\ UserTerminalTelemetry \in TablesOf(TerminalRows)
    /\ utcnow \in NowChoices
    /\ stats_response = NoStats

NextStats ==
    \E device_id \in RequestDevices, organization_id \in RequestOrganizations,
       period \in RequestPeriods :
        \/ get_usage_stats(device_id, organization_id, period)
        \/ get_performance_stats(device_id, organization_id, period)

SpecStats == InitStats /\ [][NextStats]_vars

\* Registrations and the admin bootstrap against a database that is seeded at
\* some point.
InitRegister == StoreIdle /\ ClientInit({}) /\ DecoderIdle /\ StatsIdle

NextRegister ==
    \/ init_roles_and_permissions
    \/ \E email \in UserIds, valid \in BOOLEAN, user_commit \in BOOLEAN,
          role_commit \in BOOLEAN :
            register(email, valid, user_commit, role_commit)
    \/ \E user_commit \in BOOLEAN, role_commit \in BOOLEAN :
            create_admin_user(user_commit, role_commit)
    \/ send_response

SpecRegister == InitRegister /\ [][NextRegister]_vars

\* Memberships: a seeded database with one user on record, registrations,
\* role rows, and users added to and removed from organizations.
InitMembership ==
    /\ Role = {} /\ Permission = {} /\ RolePermission = {} /\ UserRole = {}
    /\ User = {"u1"}
    /\ Organization = {"o1"}
    /\ response = NoResponse
    /\ ClientInit({}) /\ DecoderIdle /\ StatsIdle /\ InventoryIdle

NextMembership ==
    \/ init_roles_and_permissions
    \/ \E u \in UserIds, r \in InputRoles \cup {"Technician"}, o \in OrgIds :
            AddUserRole(u, r, o)
    \/ \E i \in Identities :
            guarded_route(i[1], i[2], i[3], sync_telemetry_requires[1],
                          sync_telemetry_requires[2], "o1")
    \/ \E email \in UserIds, valid \in BOOLEAN, user_commit \in BOOLEAN,
          role_commit \in BOOLEAN :
            register(email, valid, user_commit, role_commit)
    \/ \E i \in Identities, o \in OrgIds, u \in UserIds, valid \in BOOLEAN :
            add_organization_user(i[1], i[2], i[3], o, u, valid)
    \/ \E i \in Identities, o \in OrgIds, u \in UserIds :
            remove_organization_user(i[1], i[2], i[3], o, u)
    \/ send_response

SpecMembership == InitMembership /\ [][NextMembership]_vars

\* Profiles: a seeded database with both users on record, role rows, and
\* requests to update a user.
InitProfile ==
    /\ Role = {} /\ Permission = {} /\ RolePermission = {} /\ UserRole = {}
    /\ User = UserIds
    /\ Organization = {"o1"}
    /\ response = NoResponse
    /\ ClientInit({}) /\ DecoderIdle /\ StatsIdle /\ InventoryIdle

NextProfile ==
    \/ init_roles_and_permissions
    \/ \E u \in UserIds, r \in InputRoles, o \in OrgIds : AddUserRole(u, r, o)
    \/ \E i \in Identities, u \in UserIds \cup {"u3"}, data \in Names,
          valid \in BOOLEAN :
            update_user(i[1], i[2], i[3], u, data, valid)
    \/ send_response

SpecProfile == InitProfile /\ [][NextProfile]_vars

\* A payload of one router row and one user terminal row.
SampleBody ==
    [kind |-> "data",
     columnNamesByDeviceType |-> [t \in {"u", "r", "i"} |-> <<"DeviceType", "X">>],
     values |-> <<<<"r", "a">>, <<"u", "a">>>>]

\* The telemetry rows on record when the requests below arrive: none, or rows
\* of device d1.
RecordedTables(rows) ==
    {T \in TablesOf(rows) : \A r \in T : r.device_id = "d1" /\ r.time = 31}

\* The traffic that touches devices and telemetry: a sync, a statistics read,
\* and the deletion of devices and organizations, against a database that
\* holds devices and telemetry rows.
InitInventory ==
    /\ Role = {} /\ Permission = {} /\ RolePermission = {} /\ UserRole = {}
    /\ User = {"u1"}
    /\ Organization = OrgIds
    /\ response = NoResponse
    /\ ClientInit({})
    /\ telemetry_data \in {SampleBody, EmptyBody}
    /\ processed_data = ProcessedNone
    /\ filed = NotFiled
    /\ RouterTelemetry \in RecordedTables(RouterRows)
    /\ UserTerminalTelemetry \in RecordedTables(TerminalRows)
    /\ utcnow = 31
    /\ stats_response = NoStats
    /\ OrganizationUser = {}
    /\ devices = DeviceIds
    /\ first_name = [u \in UserIds |-> "a"]

NextInventory ==
    \/ init_roles_and_permissions
    \/ \E r \in {"Super Admin", "Admin"}, o \in OrgIds : AddUserRole("u1", r, o)
    \/ sync_telemetry_rows
    \/ get_usage_stats("d1", Absent, "day")
    \/ \E i \in Identities, d \in DeviceIds : delete_device(i[1], i[2], i[3], d)
    \/ \E i \in Identities, o \in OrgIds :
            delete_organization(i[1], i[2], i[3], o)
    \/ send_response

SpecInventory == InitInventory /\ [][NextInventory]_vars

(***************************************************************************)
(* Properties of the access control evaluator.                             *)
(***************************************************************************)
\* The pairs the properties are stated for: catalogued ones, with and without
\* edited edges, and ones no bootstrap puts in the catalog.
AnyPairs ==
    {<<"telemetry", "read">>, <<"telemetry", "sync">>, <<"user", "delete">>,
     <<"organization", "delete">>, <<"telemetry", "create">>,
     <<"billing", "export">>}

\* The rows of the tables, read directly.
HoldsSuperAdmin(u) == \E o \in OrgIds : <<u, "Super Admin", o>> \in UserRole
RolesOf(u) == {r \in SeedRoles : \E o \in OrgIds : <<u, r, o>> \in UserRole}
Granted(u, p) == \E r \in RolesOf(u) : <<r, p>> \in RolePermission

\* The response on hand answers a request with a resolved identity and a
\* storage that answered.
Resolved == response.credential = "valid" /\ response.db_ok

\* C1: a user holding a UserRole row of the role "Super Admin" is allowed
\* every (resource, action) pair, catalogued or not, whatever edges exist; the
\* handler of a guarded route runs for such a caller.
C1_SuperAdminBypass ==
    /\ \A u \in UserIds, p \in AnyPairs :
          HoldsSuperAdmin(u) => Authorize(u, p[1], p[2]) = "Allow"
    /\ (response.route = "guarded" /\ Resolved
            /\ HoldsSuperAdmin(response.user_id))
          => response.ran /\ response.status = 200

\* C1 witness: a Super Admin was allowed a pair that is not in the catalog
\* while the role holds no edge of the edited pairs.
C1_Witness ==
    /\ response.route = "guarded" /\ response.ran
    /\ HoldsSuperAdmin(response.user_id)
    /\ Permission # {}
    /\ <<response.resource, response.action>> \notin Permission
    /\ <<"Super Admin", <<"telemetry", "read">>>> \notin RolePermission

\* C2: for a user without the Super Admin role and a catalogued pair, the
\* decision is Allow exactly when one of the user's roles has an edge to the
\* pair, and the insufficient-permissions denial otherwise, in every state the
\* edge and role edits reach.
C2_AllowIffEdge ==
    /\ \A u \in UserIds, p \in AnyPairs \cap Permission :
          ~HoldsSuperAdmin(u) =>
              Authorize(u, p[1], p[2]) =
                  IF Granted(u, p) THEN "Allow" ELSE "DenyInsufficient"
    /\ (response.route = "guarded" /\ Resolved
            /\ ~HoldsSuperAdmin(response.user_id)
            /\ <<response.resource, response.action>> \in Permission)
          => (response.ran <=>
                 Granted(response.user_id,
                         <<response.resource, response.action>>))

\* C2 witness: a user holding two roles was denied a catalogued pair after
\* the seeded edges of both roles were removed.
C2_Witness ==
    /\ response.route = "guarded" /\ Resolved
    /\ response.status = 403 /\ response.message = "Permission denied"
    /\ Cardinality(RolesOf(response.user_id)) = 2
    /\ \A r \in RolesOf(response.user_id) :
          <<r, <<response.resource, response.action>>>>
              \in SeedRolePermissions \ RolePermission

\* C3: a pair that is not in the catalog is denied to every user without the
\* Super Admin role with the reason "Permission not found", which is not the
\* reason of the ordinary denial, and the handler does not run.
C3_PermissionNotFound ==
    /\ \A u \in UserIds, p \in AnyPairs \ Permission :
          ~HoldsSuperAdmin(u)
              => Authorize(u, p[1], p[2]) = "DenyPermissionNotFound"
    /\ (response.route = "guarded" /\ Resolved
            /\ ~HoldsSuperAdmin(response.user_id)
            /\ <<response.resource, response.action>> \notin Permission)
          => /\ ~response.ran
             /\ response.status = 403
             /\ response.message = "Permission not found"
             /\ response.message # "Permission denied"
    /\ (response.route = "guarded" /\ Resolved
            /\ response.message = "Permission not found")
          => <<response.resource, response.action>> \notin Permission

\* C3 witness: after the bootstrap a role holder was refused the pair that
\* sync_telemetry requires, which the catalog lacks.
C3_Witness ==
    /\ response.route = "guarded" /\ Resolved
    /\ response.message = "Permission not found"
    /\ Permission = SeedPermissions
    /\ RolesOf(response.user_id) # {}

\* C4: a request whose identity is not resolved is answered 401 with no
\* table queried and the handler not run; once the identity is resolved and
\* the storage answers, a request whose handler is not run is answered 403.
C4_UnauthenticatedFirst ==
    /\ (response.route # "none" /\ response.credential # "valid")
          => response.status = 401 /\ response.lookups = {} /\ ~response.ran
    /\ (response.route # "none" /\ Resolved /\ ~response.ran)
          => response.status = 403

\* C4 witness: a request with an expired credential was answered 401 although
\* the user the record names holds the Super Admin role.
C4_Witness ==
    /\ response.route = "guarded" /\ response.credential = "expired"
    /\ response.status = 401
    /\ HoldsSuperAdmin(response.user_id)

\* C5: delete_user and delete_organization run for a resolved caller exactly
\* when the caller holds the Super Admin role; every other resolved caller is
\* answered 403 and no row is deleted, whatever roles and edges the caller
\* holds; and AdminOnly decides Allow exactly for Super Admin holders.
IsDeleteStep ==
    /\ response = NoResponse
    /\ response'.route \in {"delete_user", "delete_organization"}
    /\ response'.credential = "valid" /\ response'.db_ok

C5_AdminOnly ==
    [][ /\ \A u \in UserIds :
              AdminOnly(u) = IF HoldsSuperAdmin(u) THEN "Allow"
                             ELSE "DenyInsufficient"
        /\ IsDeleteStep =>
              /\ response'.ran <=> HoldsSuperAdmin(response'.user_id)
              /\ ~HoldsSuperAdmin(response'.user_id) =>
                    /\ response'.status = 403
                    /\ User' = User /\ Organization' = Organization
                    /\ UserRole' = UserRole
              /\ (HoldsSuperAdmin(response'.user_id)
                    /\ response'.route = "delete_user"
                    /\ response'.target \in User
                    /\ ~user_has_dependents(response'.target))
                    => User' = User \ {response'.target}
              /\ (HoldsSuperAdmin(response'.user_id)
                    /\ response'.route = "delete_organization"
                    /\ response'.target \in Organization
                    /\ ~organization_has_dependents(response'.target))
                    => Organization' = Organization \ {response'.target}
      ]_vars

\* C5 witness: a caller holding the role Admin, with its seeded user.delete
\* edge, was refused delete_user with 403 and the target user is still there.
C5_Witness ==
    /\ response.route = "delete_user" /\ Resolved
    /\ response.status = 403 /\ ~response.ran
    /\ "Admin" \in RolesOf(response.user_id)
    /\ <<"Admin", <<"user", "delete">>>> \in RolePermission
    /\ response.target \in User

\* C6: the decision does not read the organization column: two users holding
\* the same roles are decided alike for every pair, whatever organizations
\* their UserRole rows name; and a guarded request is decided by the caller's
\* roles whatever organization it targets.
C6_OrganizationAgnostic ==
    /\ \A u \in UserIds, v \in UserIds, p \in AnyPairs :
          RolesOf(u) = RolesOf(v)
              => Authorize(u, p[1], p[2]) = Authorize(v, p[1], p[2])
    /\ (response.route = "guarded" /\ Resolved)
          => (response.ran <=>
                 \/ HoldsSuperAdmin(response.user_id)
                 \/ /\ <<response.resource, response.action>> \in Permission
                    /\ Granted(response.user_id,
                               <<response.resource, response.action>>))

\* C6 witness: a caller whose only role row names organization o1 was allowed
\* a request that targets organization o2.
C6_Witness ==
    /\ response.route = "guarded" /\ response.ran
    /\ ~HoldsSuperAdmin(response.user_id)
    /\ response.target = "o2"
    /\ user_roles(response.user_id) # {}
    /\ \A ur \in user_roles(response.user_id) : ur[3] = "o1"

(***************************************************************************)
(* Properties of the telemetry client.                                     *)
(***************************************************************************)
RECURSIVE Count(_, _)
Count(seq, x) ==
    IF seq = <<>> THEN 0
    ELSE (IF Head(seq) = x THEN 1 ELSE 0) + Count(Tail(seq), x)

\* The replies of the telemetry endpoint in a log, in order.
RECURSIVE Replies(_)
Replies(seq) ==
    IF seq = <<>> THEN <<>>
    ELSE IF Head(seq) \in TelemetryReplies
         THEN <<Head(seq)>> \o Replies(Tail(seq))
         ELSE Replies(Tail(seq))

\* The fetch of t has returned to its caller.
Returned(t) == pc[t] = "idle" /\ result[t] # "none"

\* t takes the step of _ensure_token that decides whether to refresh.
EnsureStep(t) == pc[t] = "ensure" /\ pc'[t] # "ensure"

\* C7: a fetch answered 401 and then 200 succeeds after exactly 2 telemetry
\* requests with exactly 1 token exchange between them; a fetch answered 401
\* twice in a row ends in error after exactly 2 telemetry requests, with no
\* third one.
C7_RetryOnce ==
    \A t \in threads :
        /\ (Returned(t) /\ Replies(log[t]) = <<"401", "200">>)
              => /\ result[t] = "ok"
                 /\ Count(log[t], "telemetry") = 2
                 /\ Count(log[t], "token") - (IF log[t][1] = "token" THEN 1 ELSE 0) = 1
        /\ (Len(Replies(log[t])) >= 2
                /\ Replies(log[t])[1] = "401" /\ Replies(log[t])[2] = "401")
              => /\ Count(log[t], "telemetry") = 2
                 /\ pc[t] \in {"clear_expiry", "return", "idle"}
                 /\ pc[t] = "idle" => result[t] = "error"

\* The first half of C7 alone, which the client satisfies.
C7_RetryThenSuccess ==
    \A t \in threads :
        (Returned(t) /\ Replies(log[t]) = <<"401", "200">>)
            => /\ result[t] = "ok"
               /\ log[t] \in {<<"token", "telemetry", "401", "token", "telemetry", "200">>,
                              <<"telemetry", "401", "token", "telemetry", "200">>}

\* C8 as stated: a fetch whose token check comes less than 14 minutes after
\* the cached token arrived makes no token exchange, and one whose check comes
\* at or after that makes exactly one before its telemetry request.
C8_FromAcquisition ==
    [][ \A t \in threads :
          (EnsureStep(t) /\ access_token # None) =>
              IF now < acquired_at + TOKEN_REFRESH_SECONDS
              THEN pc'[t] = "send" /\ log'[t] = log[t]
              ELSE pc'[t] = "token_request" /\ log'[t] = Append(log[t], "token")
      ]_vars

\* C8 amended: the 14 minutes run from the time read by the token check that
\* acquired the cached token (before the exchange was sent): a check of the
\* same client less than 14 minutes after it makes no token exchange; a check
\* at or after it makes exactly one, and the telemetry request follows a
\* successful exchange directly.
C8_FromTokenCheck ==
    [][ \A t \in threads :
          /\ (EnsureStep(t) /\ access_token # None) =>
                IF now < checked_at + TOKEN_REFRESH_SECONDS
                THEN pc'[t] = "send" /\ log'[t] = log[t]
                ELSE pc'[t] = "token_request"
                     /\ log'[t] = Append(log[t], "token")
          /\ (pc[t] = "send" /\ pc'[t] = "await") =>
                \/ Len(log[t]) = 0
                \/ log[t][Len(log[t])] # "token"
                \/ /\ Len(log[t]) >= 2 => log[t][Len(log[t]) - 1] # "token"
                   /\ access_token = issued /\ bearer'[t] = issued
      ]_vars

\* C8 witness: a second fetch on a kept client sent its telemetry request
\* with the cached token and no exchange, less than 14 minutes after the check,
\* and after the token had arrived later than it was asked for.
C8_Witness ==
    /\ fetches[1] = 2 /\ caller[1] = "method"
    /\ log[1] = <<"telemetry">>
    /\ bearer[1] = issued /\ issued = 1
    /\ checked_at < acquired_at
    /\ now < checked_at + TOKEN_REFRESH_SECONDS

\* A second C8 case: the fetch at exactly the expiry made one exchange and
\* then its request.
C8_WitnessExpired ==
    /\ fetches[1] = 2 /\ caller[1] = "method"
    /\ log[1] = <<"token", "telemetry">>
    /\ issued = 2 /\ bearer[1] = 2
    /\ current_time[1] = TOKEN_REFRESH_SECONDS

\* C9: a reply that is neither 2xx nor 401, or no reply, ends the fetch: it is
\* the last entry of the fetch's log (no retry, no token exchange after it),
\* the fetch returns the error outcome, not the success outcome, and
\* sync_telemetry answers 500; when it is the first reply, exactly one
\* telemetry request was made.
C9_TerminalFailure ==
    \A t \in threads :
        \A i \in 1..Len(log[t]) :
            log[t][i] \in {"500", "transport"} =>
                /\ i = Len(log[t])
                /\ pc[t] \in {"return", "idle"}
                /\ result[t] = "error" /\ result[t] # "ok"
                /\ Len(Replies(log[t])) = 1 => Count(log[t], "telemetry") = 1
                /\ (pc[t] = "idle" /\ caller[t] = "sync_telemetry")
                      => http[t] = 500

\* C9 witness: sync_telemetry answered 500 after one token exchange and one
\* telemetry request that got a non-2xx reply.
C9_Witness ==
    /\ pc[1] = "idle" /\ caller[1] = "sync_telemetry" /\ http[1] = 500
    /\ log[1] = <<"token", "telemetry", "500">>

\* C10: with threads sharing the client, a thread never sends a telemetry
\* request with a token that another thread's 401 has cleared: the request a
\* thread sends while the other thread is handling a 401 carries a token.
C10_SharedClientTolerated ==
    [][ \A t \in threads :
          (pc[t] = "send" /\ pc'[t] = "await"
              /\ \E u \in threads \ {t} : pc[u] = "clear_expiry")
            => bearer'[t] # None
      ]_vars

(***************************************************************************)
(* Properties of process_telemetry_data and of the filing of its records.  *)
(***************************************************************************)
\* A row the decoding rules accept: at least 2 elements, a column list for
\* its first element, of the row's length.
Usable(column_names_by_device_type, row) ==
    /\ Len(row) >= 2
    /\ row[1] \in DOMAIN column_names_by_device_type
    /\ Len(column_names_by_device_type[row[1]]) = Len(row)

UsableRows ==
    SelectSeq(telemetry_data.values,
              LAMBDA row : Usable(telemetry_data.columnNamesByDeviceType, row))

UsableOfType(device_type) ==
    SelectSeq(UsableRows, LAMBDA row : row[1] = device_type)

\* The column list of a usable row.
ColumnsOf(row) == telemetry_data.columnNamesByDeviceType[row[1]]

\* A data payload has been processed.
Processed == filed.by # "none" /\ telemetry_data.kind = "data"

\* C11: the records come from exactly the rows that have at least 2
\* elements and a column list of their own length for their first element, one
\* record per such row and none for any other row; each record pairs all the
\* names of the list with values of its row.
C11_AcceptExactly ==
    Processed =>
        /\ ~processed_data.none
        /\ Len(processed_data.data) = Len(UsableRows)
        /\ \A k \in 1..Len(processed_data.data) :
              LET rec == processed_data.data[k]
                  row == UsableRows[k]
              IN /\ DOMAIN rec = {ColumnsOf(row)[i] : i \in 1..Len(row)}
                 /\ \A name \in DOMAIN rec :
                       \E i \in 1..Len(row) :
                           ColumnsOf(row)[i] = name /\ rec[name] = row[i]

\* C11 witness: of a short row, a row of a mismatched length and a row of the
\* list's length, only the last gave a record.
C11_Witness ==
    /\ filed.by = "sync_telemetry"
    /\ telemetry_data.kind = "data"
    /\ telemetry_data.columnNamesByDeviceType =
           [t \in {"u", "r", "i"} |-> <<"DeviceType", "X", "Y">>]
    /\ telemetry_data.values = <<<<"u", "a">>, <<"u", "a", "r">>>>
    /\ Len(processed_data.data) = 1

\* C12 as stated: the record of an accepted row maps column name i to row
\* value i for every index i, and has no other field.
C12_PositionalPairing ==
    Processed =>
        \A k \in 1..Len(processed_data.data) :
            k <= Len(UsableRows) =>
                LET rec == processed_data.data[k]
                    row == UsableRows[k]
                IN /\ DOMAIN rec = {ColumnsOf(row)[i] : i \in 1..Len(row)}
                   /\ \A i \in 1..Len(row) : rec[ColumnsOf(row)[i]] = row[i]

\* C12 amended: the record of an accepted row has exactly the names of the
\* column list as fields, and maps column name i to row value i for every
\* index i whose name does not occur again later in the list; a name that
\* occurs more than once keeps the value at its last index.
C12_LastPairingWins ==
    Processed =>
        \A k \in 1..Len(processed_data.data) :
            k <= Len(UsableRows) =>
                LET rec == processed_data.data[k]
                    row == UsableRows[k]
                    cols == ColumnsOf(row)
                IN /\ DOMAIN rec = {cols[i] : i \in 1..Len(row)}
                   /\ \A i \in 1..Len(row) :
                         (\A j \in (i + 1)..Len(row) : cols[j] # cols[i])
                             => rec[cols[i]] = row[i]

\* C12 witness: names DeviceType, X, Y for type u and the row u, a, r gave the
\* record DeviceType: u, X: a, Y: r in the user-terminal stream.
C12_Witness ==
    /\ filed.by = "get_user_terminal_telemetry"
    /\ telemetry_data.kind = "data"
    /\ "u" \in DOMAIN telemetry_data.columnNamesByDeviceType
    /\ telemetry_data.columnNamesByDeviceType["u"] = <<"DeviceType", "X", "Y">>
    /\ telemetry_data.values = <<<<"u", "a", "r">>>>
    /\ filed.user_terminal =
           <<[n \in {"DeviceType", "X", "Y"} |->
                 IF n = "DeviceType" THEN "u" ELSE IF n = "X" THEN "a" ELSE "r"]>>

\* The stream a caller fills for a device type, and the callers that fill it.
StreamOf(device_type) ==
    IF device_type = "u" THEN filed.user_terminal
    ELSE IF device_type = "r" THEN filed.router
    ELSE filed.ip_allocation

Fills(device_type) ==
    {"sync_telemetry",
     IF device_type = "u" THEN "get_user_terminal_telemetry"
     ELSE IF device_type = "r" THEN "get_router_telemetry"
     ELSE "get_ip_allocations"}

\* C13: every accepted row is filed under the stream of its first element
\* and no other: each of the three streams holds exactly the records of the
\* accepted rows whose first element is its discriminator, whatever the names
\* of the column list.
C13_FiledByFirstElement ==
    Processed =>
        \A device_type \in {"u", "r", "i"} :
            filed.by \in Fills(device_type) =>
                /\ Len(StreamOf(device_type)) = Len(UsableOfType(device_type))
                /\ \A k \in 1..Len(StreamOf(device_type)) :
                      k <= Len(UsableOfType(device_type)) =>
                          StreamOf(device_type)[k] =
                              row_dict(ColumnsOf(UsableOfType(device_type)[k]),
                                       UsableOfType(device_type)[k])

\* C14: sync_telemetry answers a 2xx body with success whatever the body
\* holds, and with three empty streams when no row of it is usable.
C14_DecodeNeverFails ==
    filed.by = "sync_telemetry" =>
        /\ filed.status = 200
        /\ (telemetry_data.kind # "data" \/ UsableRows = <<>>) =>
              /\ filed.user_terminal = <<>>
              /\ filed.router = <<>>
              /\ filed.ip_allocation = <<>>

\* The part of C14 about rows: a data payload is answered with success, and
\* with three empty streams when no row of it is usable.
C14_RowsNeverFail ==
    (filed.by = "sync_telemetry" /\ telemetry_data.kind = "data") =>
        /\ filed.status = 200
        /\ UsableRows = <<>> =>
              /\ filed.user_terminal = <<>>
              /\ filed.router = <<>>
              /\ filed.ip_allocation = <<>>

(***************************************************************************)
(* Properties of the statistics handlers.                                  *)
(***************************************************************************)
Answered == stats_response.handler # "none"
ReqDevice == stats_response.request[1]
ReqOrganization == stats_response.request[2]
ReqPeriod == stats_response.request[3]

\* The table a handler aggregates.
TableOf(handler) ==
    IF handler = "get_usage_stats" THEN RouterTelemetry
    ELSE UserTerminalTelemetry

\* The length in days of a period's trailing window.
WindowDays(period) ==
    IF period = "day" THEN 1 ELSE IF period = "week" THEN 7 ELSE 30

\* The rows of the answered request's scope inside the window of a period
\* that ends at the time of the call.
InWindow(period) ==
    {r \in TableOf(stats_response.handler) :
        /\ ReqDevice # Absent => r.device_id = ReqDevice
        /\ ReqOrganization # Absent => Device[r.device_id] = ReqOrganization
        /\ utcnow - WindowDays(period) <= r.time
        /\ r.time <= utcnow}

\* The sums of the two counters over rows, an absent counter counting zero.
TxTotal(rows) ==
    SumOf({<<r, IF r.wan_tx_bytes = NULL THEN 0 ELSE r.wan_tx_bytes>> : r \in rows})

RxTotal(rows) ==
    SumOf({<<r, IF r.wan_rx_bytes = NULL THEN 0 ELSE r.wan_rx_bytes>> : r \in rows})

\* The average of a metric over the rows that carry it, rounded, in units of
\* 10^-digits; zero when no row carries it.
MetricAverage(rows, m, digits) ==
    LET carrying == {r \in rows : r.metrics[m] # NULL}
    IN IF carrying = {} THEN 0
       ELSE round_to(SumOf({<<r, r.metrics[m]>> : r \in carrying}),
                     Cardinality(carrying), digits)

\* The six averages of a performance answer, by metric.
AnsweredAverage(m) ==
    IF m = "downlink_throughput" THEN stats_response.body.avg_downlink_throughput
    ELSE IF m = "uplink_throughput" THEN stats_response.body.avg_uplink_throughput
    ELSE IF m = "ping_latency_ms_avg" THEN stats_response.body.avg_ping_latency
    ELSE IF m = "ping_drop_rate_avg" THEN stats_response.body.avg_ping_drop_rate
    ELSE IF m = "obstruction_percent_time"
         THEN stats_response.body.avg_obstruction_percent
    ELSE stats_response.body.avg_signal_quality

DigitsOf(m) == IF m = "ping_drop_rate_avg" THEN 4 ELSE 2

\* C15: a usage or performance request that names neither a device nor an
\* organization, or names both, is answered 400 and runs no query.
C15_ExactlyOneScope ==
    (Answered /\ (ReqDevice = Absent) = (ReqOrganization = Absent)) =>
        /\ stats_response.status = 400
        /\ ~stats_response.queried

\* The part of C15 the handlers keep: a request that names neither is
\* answered 400 and runs no query.
C15_SomeScope ==
    (Answered /\ ReqDevice = Absent /\ ReqOrganization = Absent) =>
        /\ stats_response.status = 400
        /\ ~stats_response.queried

\* C16: an answered aggregation reports the window [now - 1, now],
\* [now - 7, now] or [now - 30, now] days of its period, now being the time of
\* the call, and its figures are those of exactly the scoped rows whose time
\* lies in that window, bounds included.
C16_TrailingWindow ==
    (Answered /\ stats_response.status = 200) =>
        LET body == stats_response.body
            rows == InWindow(body.period)
        IN /\ body.end_time = utcnow
           /\ body.start_time = utcnow - WindowDays(body.period)
           /\ stats_response.handler = "get_usage_stats" =>
                 /\ body.upload_bytes = TxTotal(rows)
                 /\ body.download_bytes = RxTotal(rows)
           /\ stats_response.handler = "get_performance_stats" =>
                 \A m \in Metrics :
                     AnsweredAverage(m) = MetricAverage(rows, m, DigitsOf(m))

\* C16 witness: a week's usage with a row on the first day of the window and
\* a row of the day before it: only the first was summed.
C16_Witness ==
    /\ stats_response.handler = "get_usage_stats"
    /\ stats_response.status = 200
    /\ stats_response.body.period = "week"
    /\ ReqDevice = "d1"
    /\ \E a \in RouterTelemetry, b \in RouterTelemetry :
          /\ a.device_id = "d1" /\ b.device_id = "d1"
          /\ a.time = utcnow - 7 /\ b.time = utcnow - 8
          /\ a.wan_tx_bytes = 1 /\ b.wan_tx_bytes = 1
    /\ stats_response.body.upload_bytes = 1

\* C17: a period other than day, week and month is answered 400, not 500,
\* and runs no query; a request without a period is answered for the day.
C17_PeriodValidated ==
    Answered =>
        /\ ReqPeriod \notin {Absent, "day", "week", "month"} =>
              /\ stats_response.status = 400
              /\ ~stats_response.queried
        /\ (ReqPeriod = Absent /\ stats_response.status = 200) =>
              /\ stats_response.body.period = "day"
              /\ stats_response.body.start_time = stats_response.body.end_time - 1
        /\ (ReqPeriod = Absent
                /\ (ReqDevice = Absent) # (ReqOrganization = Absent)) =>
              stats_response.status = 200

\* C17 witness: a performance request scoped to a device with the period
\* year was answered 400 without a query.
C17_Witness ==
    /\ stats_response.handler = "get_performance_stats"
    /\ stats_response.request = <<"d1", Absent, "year">>
    /\ stats_response.status = 400
    /\ ~stats_response.queried
    /\ UserTerminalTelemetry # {}

\* C18: a usage answer carries the sum of the transmitted and of the
\* received byte counters over the router rows of the window, an absent
\* counter counting zero, and their sum as the total; over no rows the three
\* figures are zero and the status is 200.
C18_UsageSums ==
    (Answered /\ stats_response.handler = "get_usage_stats"
        /\ (ReqDevice # Absent \/ ReqOrganization # Absent)
        /\ ReqPeriod \in {Absent, "day", "week", "month"}) =>
        LET body == stats_response.body
            rows == InWindow(args_get(ReqPeriod, "day"))
        IN /\ stats_response.status = 200
           /\ body.upload_bytes = TxTotal(rows)
           /\ body.download_bytes = RxTotal(rows)
           /\ body.total_bytes = body.upload_bytes + body.download_bytes
           /\ body.upload_bytes >= 0 /\ body.download_bytes >= 0
           /\ rows = {} =>
                 /\ body.upload_bytes = 0
                 /\ body.download_bytes = 0
                 /\ body.total_bytes = 0

\* C18 witness: a usage answer over two rows of the window, one of them
\* without its transmitted counter.
C18_Witness ==
    /\ stats_response.handler = "get_usage_stats"
    /\ stats_response.status = 200
    /\ ReqOrganization = "o1" /\ ReqDevice = Absent
    /\ Cardinality(InWindow(stats_response.body.period)) = 2
    /\ \E r \in InWindow(stats_response.body.period) : r.wan_tx_bytes = NULL
    /\ stats_response.body.upload_bytes = 1
    /\ stats_response.body.download_bytes = 4
    /\ stats_response.body.total_bytes = 5

\* A second C18 case: a usage answer of three zeros over an empty window of
\* a table that holds rows.
C18_WitnessEmpty ==
    /\ stats_response.handler = "get_usage_stats"
    /\ stats_response.status = 200
    /\ RouterTelemetry # {}
    /\ InWindow(stats_response.body.period) = {}
    /\ stats_response.body.total_bytes = 0

\* C19: a performance request whose window holds no user-terminal row of its
\* scope is answered 200 with zero for each of the six metrics, none of them
\* null.
C19_EmptyWindowZeros ==
    (Answered /\ stats_response.handler = "get_performance_stats"
        /\ (ReqDevice # Absent \/ ReqOrganization # Absent)
        /\ ReqPeriod \in {Absent, "day", "week", "month"}
        /\ InWindow(args_get(ReqPeriod, "day")) = {}) =>
        /\ stats_response.status = 200
        /\ \A m \in Metrics : AnsweredAverage(m) = 0 /\ AnsweredAverage(m) # NULL

\* C19 witness: six zeros answered for a month in which the organization has
\* no row, while the table holds rows.
C19_Witness ==
    /\ stats_response.handler = "get_performance_stats"
    /\ stats_response.status = 200
    /\ stats_response.body.period = "month"
    /\ ReqOrganization = "o1"
    /\ UserTerminalTelemetry # {}
    /\ InWindow("month") = {}
    /\ \A m \in Metrics : AnsweredAverage(m) = 0

(***************************************************************************)
(* Properties of registration.                                             *)
(***************************************************************************)
HasRole(user, role) == \E ur \in UserRole : ur[1] = user /\ ur[2] = role

Tables == Catalog(Role, Permission, RolePermission)

RolesIn(user_id, organization_id) ==
    {ur \in UserRole : ur[1] = user_id /\ ur[3] = organization_id}

\* C22: a registration that succeeded on a seeded database left a UserRole
\* row of the role Client for the user; adding a user to an organization left a UserRole row of the
\* user for that organization; and after remove-user-from-organization
\* succeeded no UserRole row of that user for that organization remains.
C22_UserRoleLifecycle ==
    /\ (response.route = "register" /\ response.status = 201
            /\ "Client" \in Role)
          => \E ur \in UserRole :
                ur[1] = response.target /\ ur[2] = "Client"
    /\ (response.route = "add_organization_user" /\ response.status = 201)
          => RolesIn(response.target[2], response.target[1]) # {}
    /\ (response.route = "remove_organization_user" /\ response.status = 200)
          => RolesIn(response.target[2], response.target[1]) = {}

\* The part of C22 about revocation alone.
C22_RevokedMembershipHasNoRole ==
    (response.route = "remove_organization_user" /\ response.status = 200)
        => RolesIn(response.target[2], response.target[1]) = {}

\* The part of C22 about registration on a seeded database, which the handler
\* satisfies.
C22_RegisteredIsClient ==
    (response.route = "register" /\ response.status = 201
        /\ "Client" \in Role)
        => <<response.target, "Client", NoOrganization>> \in UserRole

\* The step is one of the ingestion path: the sync_telemetry handler files a
\* payload.
IngestionStep == filed = NotFiled /\ filed'.by = "sync_telemetry"

\* C23: a step that is not of the ingestion path leaves both telemetry tables
\* as they are, the deletion of a device or of an organization included; the
\* ingestion path removes and rewrites no row; and the rows of a device are
\* on record for as long as requests are served.
C23_TelemetryAppendOnly ==
    [][ /\ ~IngestionStep =>
              /\ RouterTelemetry' = RouterTelemetry
              /\ UserTerminalTelemetry' = UserTerminalTelemetry
        /\ RouterTelemetry \subseteq RouterTelemetry'
        /\ UserTerminalTelemetry \subseteq UserTerminalTelemetry'
        /\ \A r \in RouterTelemetry' \cup UserTerminalTelemetry' :
              r.device_id \in devices'
      ]_vars

\* C23 witness: a Super Admin asked to delete a device that has telemetry
\* rows; the request failed and the rows and the device are on record.
C23_Witness ==
    /\ response.route = "delete_device" /\ response.ran
    /\ response.status = 500
    /\ response.target \in devices
    /\ \E r \in RouterTelemetry : r.device_id = response.target
    /\ \E r \in UserTerminalTelemetry : r.device_id = response.target

\* A second C23 case: the organization of the devices was not deleted either.
C23_WitnessOrganization ==
    /\ response.route = "delete_organization" /\ response.ran
    /\ response.status = 500
    /\ response.target \in Organization
    /\ RouterTelemetry # {}

(***************************************************************************)
(* Properties of the token cache across requests and of termination.       *)
(***************************************************************************)
\* C24: the cached token outlives the request: a sync request that begins
\* after an earlier sync request of the process was answered 200, less than
\* 14 minutes after the token check of that request, finds the token of that
\* request cached and unexpired, and so makes no token exchange.
C24_TokenSharedAcrossRequests ==
    [][ \A t \in threads :
          (pc[t] = "idle" /\ pc'[t] = "ensure"
              /\ caller[t] = "sync_telemetry" /\ http[t] = 200
              /\ caller'[t] = "sync_telemetry"
              /\ now < checked_at + TOKEN_REFRESH_SECONDS)
            => /\ access_token' = access_token
               /\ access_token' # None
               /\ now < token_expiry'
      ]_vars

\* What the handler does instead: every sync request that reaches the
\* telemetry endpoint has made a token exchange first.
C24_EverySyncExchanges ==
    \A t \in threads :
        (caller[t] = "sync_telemetry" /\ Count(log[t], "telemetry") >= 1)
            => log[t][1] = "token"

\* C25: every fetch returns, with the success or the error outcome, whatever
\* the upstream answers; a fetch makes at most RecursionLimit telemetry
\* requests and at most RecursionLimit token exchanges, also when every
\* telemetry request is answered 401 and every token exchange succeeds.
C25_FetchTerminates ==
    /\ [](/\ Count(log[1], "telemetry") <= RecursionLimit
          /\ Count(log[1], "token") <= RecursionLimit
          /\ depth[1] < RecursionLimit)
    /\ (pc[1] # "idle") ~> (pc[1] = "idle" /\ result[1] \in {"ok", "error"})

\* C25 witness: a fetch whose every telemetry request was answered 401 and
\* whose every token exchange succeeded has returned the error outcome.
C25_Witness ==
    /\ pc[1] = "idle" /\ result[1] = "error"
    /\ Len(Replies(log[1])) = RecursionLimit
    /\ \A i \in 1..Len(log[1]) : log[1][i] \in {"token", "telemetry", "401"}
    /\ Count(log[1], "token") = RecursionLimit
    /\ issued >= RecursionLimit

\* The last entry of a log, "" for an empty one.
LastOf(seq) == IF seq = <<>> THEN "" ELSE seq[Len(seq)]

\* C26: a token exchange that fails caches no token and leaves the expiry as
\* it was; the fetch then returns the error outcome with no telemetry request
\* and no further token exchange after the failed one; the client is left
\* without a token, and the token check of the next fetch asks for a fresh
\* exchange.
C26_FailedExchangeIsTerminal ==
    [][ \A t \in threads :
          /\ (pc[t] = "token_request" /\ pc'[t] = "token_check"
                /\ access_token' = None)
              => token_expiry' = token_expiry /\ log'[t] = log[t]
          /\ (pc[t] = "token_check" /\ access_token = None
                /\ pc'[t] # "token_check")
              => /\ pc'[t] = "return" /\ result'[t] = "error"
                 /\ log'[t] = log[t] /\ LastOf(log[t]) = "token"
                 /\ access_token' = None /\ token_expiry' = token_expiry
          /\ (pc[t] = "return" /\ LastOf(log[t]) = "token")
              => /\ result[t] = "error" /\ access_token = None
                 /\ pc'[t] \in {"return", "idle"}
                 /\ log'[t] = log[t] /\ access_token' = None
                 /\ token_expiry' = token_expiry
          /\ (pc[t] = "idle" /\ LastOf(log[t]) = "token")
              => /\ access_token = None
                 /\ caller[t] = "sync_telemetry" => http[t] = 500
          /\ (EnsureStep(t) /\ access_token = None)
              => pc'[t] = "token_request"
                 /\ log'[t] = Append(log[t], "token")
      ]_vars

\* C26 witness: the cached token ran out, the exchange of the next fetch
\* failed, and the fetch returned the error outcome with no telemetry request;
\* no token is cached and the expiry is the old one.
C26_Witness ==
    /\ pc[1] = "idle" /\ result[1] = "error"
    /\ log[1] = <<"token">>
    /\ fetches[1] = 2 /\ issued = 1
    /\ access_token = None
    /\ token_expiry = TOKEN_REFRESH_SECONDS /\ token_expiry <= now

\* A second C26 case: the exchange that followed a 401 failed.
C26_WitnessAfter401 ==
    /\ pc[1] = "idle" /\ result[1] = "error"
    /\ log[1] = <<"token", "telemetry", "401", "token">>
    /\ access_token = None /\ token_expiry = 0

\* The parts of C27 that do not depend on where the 14 minutes start: a
\* telemetry request goes out only with a token that the preceding check
\* found or fetched and whose expiry lies after the time of that check; a 401
\* clears the token, then the expiry, before anything else is sent; and the
\* request of the retry carries a token other than the rejected one.
SentInTokenValid(t) ==
    (pc[t] = "send" /\ pc'[t] = "await")
        => /\ access_token # None /\ bearer'[t] = access_token
           /\ current_time[t] < token_expiry
           /\ depth[t] > 0 => bearer'[t] # bearer[t]

ClearedOn401(t) ==
    /\ (pc[t] = "await" /\ pc'[t] = "clear_expiry") => access_token' = None
    /\ (pc[t] = "clear_expiry" /\ pc'[t] # "clear_expiry")
          => /\ access_token = None /\ access_token' = None
             /\ token_expiry' = 0
             /\ pc'[t] \in {"ensure", "return"}
    /\ (pc[t] = "clear_expiry" /\ pc'[t] = "ensure" /\ pc'[t] # pc[t])
          => LastOf(log'[t]) = "401"

\* The client is outside _ensure_token's exchange: a token that is cached has
\* had its expiry recorded.
ExpiryRecorded == \A t \in threads : pc[t] # "token_check"

\* C27 as stated: whenever a token is cached its expiry is the time it was
\* acquired + 14 minutes; a telemetry request is sent only in TokenValid; a
\* 401 moves the client to NoToken before any further request.
C27_TokenStateMachine ==
    [][ /\ (access_token # None /\ ExpiryRecorded)
              => token_expiry = acquired_at + TOKEN_REFRESH_SECONDS
        /\ \A t \in threads : SentInTokenValid(t) /\ ClearedOn401(t)
      ]_vars

\* C27 amended: whenever a token is cached (and _ensure_token has recorded
\* its expiry) the expiry is the time read by the token check that acquired
\* it, before the exchange was sent, + 14 minutes; the rest as stated.
C27_TokenStateMachineFromCheck ==
    [][ /\ (access_token # None /\ ExpiryRecorded)
              => /\ token_expiry = checked_at + TOKEN_REFRESH_SECONDS
                 /\ checked_at <= acquired_at
        /\ \A t \in threads : SentInTokenValid(t) /\ ClearedOn401(t)
      ]_vars

\* C27 witness: a token that arrived later than the check that asked for it
\* was rejected with 401, and the retry sent its request with a fresh token,
\* whose expiry is counted from the check of the retry.
C27_Witness ==
    /\ log[1] = <<"token", "telemetry", "401", "token", "telemetry">>
    /\ pc[1] = "await" /\ depth[1] = 1
    /\ issued = 2 /\ bearer[1] = 2 /\ access_token = 2
    /\ checked_at < acquired_at
    /\ token_expiry = checked_at + TOKEN_REFRESH_SECONDS

(***************************************************************************)
(* The pairs the routes require against the seeded catalog.                *)
(***************************************************************************)
\* init_roles_and_permissions has run.
Bootstrapped == SeedRoles \subseteq Role /\ SeedPermissions \subseteq Permission

\* The Technician part of C28: a user who holds the Technician role, seeded
\* with <<"telemetry", "sync">>, is allowed what sync_telemetry requires.
C28_TechnicianMaySync ==
    Bootstrapped =>
        \A u \in UserIds :
            ("Technician" \in RolesOf(u)
                /\ <<"Technician", <<"telemetry", "sync">>>> \in RolePermission)
              => Authorize(u, sync_telemetry_requires[1],
                           sync_telemetry_requires[2]) = "Allow"

\* C28: after the bootstrap every pair a route requires is in the Permission
\* catalog, the pair sync_telemetry requires is a seeded one, no request with
\* a resolved identity is refused with 'Permission not found', and a
\* Technician is allowed to invoke sync.
C28_RequiredPermissionsSeeded ==
    Bootstrapped =>
        /\ RequiredPermissions \subseteq Permission
        /\ sync_telemetry_requires \in SeedPermissions
        /\ (response.route = "guarded" /\ Resolved)
              => response.message # "Permission not found"
        /\ C28_TechnicianMaySync

\* The refusal C28 excludes: after the bootstrap a user who holds only the
\* Technician role asked for sync and was answered 403 'Permission not found'.
C28_TechnicianRefused ==
    /\ Bootstrapped
    /\ response.route = "guarded" /\ Resolved
    /\ <<response.resource, response.action>> = sync_telemetry_requires
    /\ RolesOf(response.user_id) = {"Technician"}
    /\ response.status = 403 /\ response.message = "Permission not found"

(***************************************************************************)
(* Who may change a users row.                                             *)
(***************************************************************************)
\* The step answers an update_user request of an authenticated caller.
UpdateAnswered ==
    /\ response = NoResponse /\ response'.route = "update_user"
    /\ response'.credential = "valid"

\* C29: a users row changes only in an update_user request of that user or
\* of a holder of the Super Admin role; the request of an authenticated
\* caller who is neither is denied (answered anything but success) and
\* leaves the target row as it was.
C29_UpdateSelfOrSuperAdmin ==
    [][ /\ \A u \in UserIds :
              first_name'[u] # first_name[u]
                => /\ UpdateAnswered /\ response'.target = u
                   /\ \/ response'.user_id = u
                      \/ has_super_admin(response'.user_id)
        /\ (UpdateAnswered /\ response'.user_id # response'.target
                /\ ~has_super_admin(response'.user_id))
              => /\ response'.status # 200
                 /\ first_name' = first_name
      ]_vars

\* What holds of update_user: a row changes only in a request answered 200
\* whose target is that row, and a caller's own row is his to change.
C29_UpdateAnyAuthenticated ==
    [][ /\ \A u \in UserIds :
              first_name'[u] # first_name[u]
                => /\ UpdateAnswered /\ response'.target = u
                   /\ response'.status = 200
        /\ (UpdateAnswered /\ response'.db_ok /\ response'.target \in User)
              => response'.status \in {200, 400}
      ]_vars

\* The update C29 excludes: a caller without any role changed the row of
\* another user and was answered 200.
C29_ForeignRowChanged ==
    /\ response.route = "update_user" /\ response.status = 200
    /\ response.user_id # response.target
    /\ user_roles(response.user_id) = {}
    /\ first_name[response.target] = "b"

(***************************************************************************)
(* What a 401 says about the request.                                      *)
(***************************************************************************)
\* C30: a request whose credential is valid is never answered 401, whether
\* the storage answered the decorator's queries or not and whatever became
\* of the handler.
C30_UnauthenticatedOnlyUnresolved ==
    (response.route # "none" /\ response.credential = "valid")
        => response.status # 401

\* What holds instead: a request with a valid credential is answered 401
\* exactly when the storage failed under the decorator's queries, with the
\* message of an invalid token and the handler not run; a handler that ran,
\* its own failure included, is never answered 401.
C30_StorageFailureIs401 ==
    /\ (response.route \in {"guarded", "delete_user", "delete_organization"}
            /\ response.credential = "valid")
          => (response.status = 401
                <=> (~response.db_ok /\ ~response.ran
                       /\ response.message = "Token is invalid or expired"))
    /\ response.ran => response.status # 401

\* The 401 C30 excludes: a holder of the Super Admin role with a valid
\* credential was answered 401 because the storage did not answer.
C30_ValidCredential401 ==
    /\ response.route = "guarded" /\ response.credential = "valid"
    /\ ~response.db_ok /\ HoldsSuperAdmin(response.user_id)
    /\ response.status = 401

\* A handler that failed after the decorator let it run: answered 500.
C30_HandlerFailure500 ==
    /\ response.route = "delete_user" /\ response.credential = "valid"
    /\ response.ran /\ response.status = 500

====
